---- MODULE Spec2Model ----
(***************************************************************************)
(* A model of the core of the axone-protocol/prolog engine:                *)
(*   - the persistent binding environment (a red-black tree of nodes on a  *)
(*     heap) with lookup, bind, insert, balance and Resolve;               *)
(*   - unification with and without occurs check;                          *)
(*   - the promise trampoline (Force) with cut, repeat, catch, panics and  *)
(*     cancellation, and the bytecode interpreter that feeds it.           *)
(***************************************************************************)
EXTENDS Integers, Sequences, FiniteSets, TLC

VARIABLES
    envHeap,    \* the Go heap of *Env nodes: a sequence, a pointer is an index
    envRoots,   \* every environment value obtained so far (root pointers)
    envTables,  \* for each of them, the lookup results seen when it was obtained
    envLast,    \* the last bind: [base, v, t]
    uEnv,       \* the environment the next unification starts from
    uSetup,     \* how many unifications built uEnv
    uCall,      \* the unification under test: its inputs and both results
    procedures, \* vm.procedures: procedure indicator -> procedure
    fHeap,      \* the Go heap of *Promise values
    fStack,     \* Force's stack of promises, the top is the last element
    fPc,        \* where Force is: "idle", "poll", "body", "done", "panicked"
    fResult,    \* what Force returned: [ok, err]
    fCancelled, \* ctx is cancelled
    fInput,     \* what the forced promise was built from
    fLog,       \* the promise functions invoked so far, in order
    fNext,      \* how many times a NextFunc was called
    fIter,      \* how many iterations went past the check of ctx
    fSeen,      \* fLog, fNext, fIter and fPc at the moment of cancellation
    fBase,      \* for each promise pushed: the stack below it at that moment
    fCut,       \* the last cut: its cutParent, the stack before and after
    fRec,       \* the last error: the stack before and after recover
    dbOrder,    \* the procedure indicators in the order of their first insertion
    dbRetract,  \* what the closures of the retract in progress share
    dbLast,     \* the last database built-in called: its input and outcome
    dbTwin,     \* the second engine: its database and its last outcome
    dbNextId,   \* the identity of the next clause compiled
    varCounter,   \* the counter of variables
    maxVariables, \* vm.maxVariables and the cap in force
    varIssued,    \* the identities that NewVariable returned, in order
    varLast,      \* the last call about variables and what it returned
    cmpEnv,     \* the environment the terms are compared under
    cmpSetup,   \* how many variables were bound in it
    cmpLast,    \* the last terms compared and what Compare returned
    rfRuns,     \* the Forces on the promise that ended: result, children drawn, NextFunc calls
    arLast,     \* the last arithmetic operation: operator, operands, result
    vmHook,     \* vm.hook
    hkRuns,     \* per promise function that ran: the hook calls and instructions, in order
    hkMark,     \* how many had run at the last InstallHook or ClearHook
    hkOps,      \* how many InstallHook and ClearHook calls were made
    hkCaught,   \* the runs whose hook error a catch recovered
    ntLast,     \* the last call of a native predicate's call method
    vmUnknown,  \* vm.unknown
    ukLast,     \* the last call of Arrive made on its own
    coLast,     \* the last call of findall/3 or bagof/3
    dcDict,     \* the dict at hand
    dcLast,     \* the last operation on dicts and what it gave
    cpLast,     \* the last clause compiled and what compile gave
    bsStream,   \* the stream of the VM
    bsLast,     \* the last call of get_byte/2 or peek_byte/2
    rsEnv,      \* the environment Resolve is called on
    rsBinds,    \* the number of bindings made in it
    rsRun,      \* the call of Resolve: its loop, term and variables seen
    rnLast,     \* the last goal run with its program, and what it gave
    lvDb,       \* the backing arrays, the slice of f/1 and the next clause id
    lvCall,     \* the call of f(X) in progress: its alternatives and those tried
    lvRetract   \* the retract in progress: its slice, raws and counters

envVars == <<envHeap, envRoots, envTables, envLast>>
unifyVars == <<uEnv, uSetup, uCall>>

forceVars == <<procedures, fHeap, fStack, fPc, fResult, fCancelled, fInput, fLog,
               fNext, fIter, fSeen, fBase, fCut, fRec>>

dbVars == <<dbOrder, dbRetract, dbLast, dbTwin, dbNextId>>

varVars == <<varCounter, maxVariables, varIssued, varLast>>

cmpVars == <<cmpEnv, cmpSetup, cmpLast>>

againVars == <<rfRuns>>

arithVars == <<arLast>>

hookVars == <<vmHook, hkRuns, hkMark, hkOps, hkCaught>>

dictVars == <<dcDict, dcLast>>

byteVars == <<bsStream, bsLast>>

resolveVars == <<rsEnv, rsBinds, rsRun>>

liveVars == <<lvDb, lvCall, lvRetract>>
lastVars == <<cpLast, byteVars, resolveVars, rnLast, liveVars>>

pureVars == <<ntLast, vmUnknown, ukLast, coLast, dictVars, lastVars>>

moreVars == <<againVars, arithVars, hookVars, pureVars>>

laterVars == <<dbVars, varVars, cmpVars, moreVars>>

\* Everything but the driver's variables and those of the later parts.
earlierVars == <<envVars, unifyVars, dbVars, varVars, cmpVars>>

\* Everything but the variables of the pure functions.
stackVars == <<earlierVars, forceVars, againVars, arithVars, hookVars>>

vars == <<envVars, unifyVars, forceVars, laterVars>>

(***************************************************************************)
(* Terms.  A term is a record tagged with its variant.                     *)
(***************************************************************************)
Variable(n) == [t |-> "var", v |-> n]
NewAtom(s) == [t |-> "atom", a |-> s]
Integer(i) == [t |-> "int", i |-> i]
Float(c, e) == [t |-> "float", coef |-> c, exp |-> e]
Cmp(f, args) == [t |-> "cmp", f |-> f, args |-> args]

IsVar(x) == x.t = "var"
IsCompound(x) == x.t = "cmp"

\* The variable ResetEnv draws first: the counter is set to 0 and NewVariable
\* adds one.
varContext == 1

rootContext == NewAtom("root")

(***************************************************************************)
(* The environment: part_002.                                              *)
(***************************************************************************)
Nil == 0

EnvNode(c, l, r, k, v) == [color |-> c, left |-> l, right |-> r, key |-> k, value |-> v]

\* Go's integer division truncates toward zero.
GoDiv(a, b) == IF a >= 0 THEN a \div b ELSE -((-a) \div b)

\* A key that would halve the identity: two variables share a key.
newEnvKeyHalved(v) == IF GoDiv(v, 2) # 0 THEN GoDiv(v, 2) * (-1) ELSE v

newEnvKey(v) == IF GoDiv(v, 2) # 0 THEN v * (-1) ELSE v

\* &Env{binding: ...}: the zero color is red, both children nil.
rootEnv == EnvNode("red", Nil, Nil, newEnvKey(varContext), rootContext)

\* An allocation: the new object gets a fresh address.
Alloc(h, node) == [h |-> Append(h, node), r |-> Len(h) + 1]

NotFound == [ok |-> FALSE]
Found(t) == [ok |-> TRUE, t |-> t]

RECURSIVE lookupNode(_, _, _)
lookupNode(h, node, k) ==
    IF node = Nil THEN NotFound
    ELSE IF k < h[node].key THEN lookupNode(h, h[node].left, k)
    ELSE IF k > h[node].key THEN lookupNode(h, h[node].right, k)
    ELSE Found(h[node].value)

\* e is [h |-> heap, r |-> root pointer]; a nil e is looked up in rootEnv().
lookup(e, v) ==
    LET k == newEnvKey(v)
    IN  IF e.r = Nil
        THEN IF k = rootEnv.key THEN Found(rootEnv.value) ELSE NotFound
        ELSE lookupNode(e.h, e.r, k)

Red(h, p) == p # Nil /\ h[p].color = "red"

\* *e = Env{color: red, left: &Env{black a b x}, right: &Env{black c d z}, binding: y}
Rebuild(h, e, a, b, c, d, x, y, z) ==
    LET l == Alloc(h, EnvNode("black", a, b, x.key, x.value))
        r == Alloc(l.h, EnvNode("black", c, d, z.key, z.value))
    IN  [r.h EXCEPT ![e] = EnvNode("red", l.r, r.r, y.key, y.value)]

\* balance rewrites the node at address e in place.
balance(h, e) ==
    LET n == h[e]
    IN  IF Red(h, n.left)
        THEN LET l == h[n.left]
             IN  IF Red(h, l.left)
                 THEN Rebuild(h, e, h[l.left].left, h[l.left].right, l.right, n.right,
                              h[l.left], l, n)
                 ELSE IF Red(h, l.right)
                 THEN Rebuild(h, e, l.left, h[l.right].left, h[l.right].right, n.right,
                              l, h[l.right], n)
                 ELSE h
        ELSE IF Red(h, n.right)
        THEN LET r == h[n.right]
             IN  IF Red(h, r.left)
                 THEN Rebuild(h, e, n.left, h[r.left].left, h[r.left].right, r.right,
                              n, h[r.left], r)
                 ELSE IF Red(h, r.right)
                 THEN Rebuild(h, e, n.left, r.left, h[r.right].left, h[r.right].right,
                              n, r, h[r.right])
                 ELSE h
        ELSE h

\* A slip that would share the node instead of copying it: ret := e.
CopyNodeShared(h, e) == [h |-> h, r |-> e]

\* ret := *e: a copy of the node at a fresh address.
CopyNode(h, e) == Alloc(h, h[e])

RECURSIVE insert(_, _, _, _)
insert(h, e, k, v) ==
    IF e = Nil THEN Alloc(h, EnvNode("red", Nil, Nil, k, v))
    ELSE IF k < h[e].key
    THEN LET ret == CopyNode(h, e)
             sub == insert(ret.h, h[e].left, k, v)
             h2 == [sub.h EXCEPT ![ret.r].left = sub.r]
         IN  [h |-> balance(h2, ret.r), r |-> ret.r]
    ELSE IF k > h[e].key
    THEN LET ret == CopyNode(h, e)
             sub == insert(ret.h, h[e].right, k, v)
             h2 == [sub.h EXCEPT ![ret.r].right = sub.r]
         IN  [h |-> balance(h2, ret.r), r |-> ret.r]
    ELSE LET ret == CopyNode(h, e)
         IN  [h |-> [ret.h EXCEPT ![ret.r].value = v], r |-> ret.r]

bind(e, v, t) ==
    LET k == newEnvKey(v)
        node == IF e.r = Nil THEN Alloc(e.h, rootEnv) ELSE e
        ins == insert(node.h, node.r, k, t)
        ret == CopyNode(ins.h, ins.r)
    IN  [h |-> [ret.h EXCEPT ![ret.r].color = "black"], r |-> ret.r]

\* Resolve follows the variable chain, stopping at a variable it has seen.
RECURSIVE ResolveFrom(_, _, _)
ResolveFrom(e, t, stop) ==
    IF IsVar(t)
    THEN IF t.v \in stop THEN t
         ELSE LET ref == lookup(e, t.v)
              IN  IF ~ref.ok THEN t ELSE ResolveFrom(e, ref.t, stop \cup {t.v})
    ELSE t

Resolve(e, t) == ResolveFrom(e, t, {})

(***************************************************************************)
(* Unification: part_002.  A recursion that never ends overflows the Go    *)
(* stack; the model gives every recursion MaxDepth frames and reports a    *)
(* call that needs more as diverged.                                       *)
(***************************************************************************)
MaxDepth == 12

RECURSIVE Pow10(_)
Pow10(n) == IF n = 0 THEN 1 ELSE 10 * Pow10(n - 1)

\* apd.Decimal.Cmp(...) == 0: the decimals denote the same number.
FloatEq(x, y) ==
    LET m == IF x.exp < y.exp THEN x.exp ELSE y.exp
    IN  x.coef * Pow10(x.exp - m) = y.coef * Pow10(y.exp - m)

\* contains: "yes", "no", or "div" when the recursion does not end.
RECURSIVE contains(_, _, _, _)
RECURSIVE containsArgs(_, _, _, _, _)
contains(t, s, env, fuel) ==
    IF fuel = 0 THEN "div"
    ELSE IF IsVar(t)
    THEN IF t = s THEN "yes"
         ELSE LET ref == lookup(env, t.v)
              IN  IF ~ref.ok THEN "no" ELSE contains(ref.t, s, env, fuel - 1)
    ELSE IF IsCompound(t)
    THEN IF s.t = "atom" /\ t.f = s.a THEN "yes"
         ELSE containsArgs(t, 1, s, env, fuel)
    ELSE IF t = s THEN "yes" ELSE "no"

containsArgs(t, i, s, env, fuel) ==
    IF i > Len(t.args) THEN "no"
    ELSE LET c == contains(t.args[i], s, env, fuel - 1)
         IN  IF c = "no" THEN containsArgs(t, i + 1, s, env, fuel) ELSE c

UnifyResult(e, ok) == [env |-> e, ok |-> ok, div |-> FALSE]
UnifyDiverged(e) == [env |-> e, ok |-> FALSE, div |-> TRUE]

\* A slip that would skip the occurs check.
OccursSkipped(y, x, e, fuel) == "no"

\* occursCheck && contains(vm, y, x, e)
Occurs(y, x, e, fuel) == contains(y, x, e, fuel)

\* A slip that would let an Integer on the left pass for a Float.
AtomicEqCoerced(x, y) ==
    IF y.t = "float"
    THEN \/ x.t = "float" /\ FloatEq(y, x)
         \/ x.t = "int" /\ FloatEq(y, [coef |-> x.i, exp |-> 0])
    ELSE IF y.t = "int" THEN x.t = "int" /\ y.i = x.i
    ELSE x = y

\* The atomic cases of unify: Float by Eq, Integer and the rest by ==.
AtomicEq(x, y) ==
    IF y.t = "float" THEN x.t = "float" /\ FloatEq(y, x)
    ELSE IF y.t = "int" THEN x.t = "int" /\ y.i = x.i
    ELSE x = y

\* A slip that would compare the arities only.
FunctorClashArityOnly(x, y) == Len(x.args) # Len(y.args)

\* x.Functor() != y.Functor(), then x.Arity() != y.Arity()
FunctorClash(x, y) == x.f # y.f \/ Len(x.args) # Len(y.args)

RECURSIVE unify(_, _, _, _, _)
RECURSIVE unifyArgs(_, _, _, _, _, _)
unify(e, x0, y0, occursCheck, fuel) ==
    IF fuel = 0 THEN UnifyDiverged(e)
    ELSE
    LET x == Resolve(e, x0)
        y == Resolve(e, y0)
    IN  IF IsVar(x)
        THEN IF x = y THEN UnifyResult(e, TRUE)
             ELSE LET c == IF occursCheck THEN Occurs(y, x, e, fuel - 1) ELSE "no"
                  IN  IF c = "div" THEN UnifyDiverged(e)
                      ELSE IF c = "yes" THEN UnifyResult(e, FALSE)
                      ELSE UnifyResult(bind(e, x.v, y), TRUE)
        ELSE IF IsCompound(x)
        THEN IF IsVar(y) THEN unify(e, y, x, occursCheck, fuel - 1)
             ELSE IF IsCompound(y)
             THEN IF FunctorClash(x, y) THEN UnifyResult(e, FALSE)
                  ELSE unifyArgs(e, x, y, 1, occursCheck, fuel)
             ELSE UnifyResult(e, FALSE)
        ELSE IF IsVar(y) THEN unify(e, y, x, occursCheck, fuel - 1)
             ELSE UnifyResult(e, AtomicEq(x, y))

\* for i := 0; i < x.Arity(); i++ { e, ok = e.unify(...); if !ok { return e, false } }
unifyArgs(e, x, y, i, occursCheck, fuel) ==
    IF i > Len(x.args) THEN UnifyResult(e, TRUE)
    ELSE LET r == unify(e, x.args[i], y.args[i], occursCheck, fuel - 1)
         IN  IF r.div \/ ~r.ok THEN r
             ELSE unifyArgs(r.env, x, y, i + 1, occursCheck, fuel)

(***************************************************************************)
(* SpecEnv: environments are built by bind from NewEnv() and from every    *)
(* environment obtained earlier (a choice point keeps its environment      *)
(* while the branches after it bind further).                              *)
(***************************************************************************)
MaxEnvs == 3

MaxNodes == 3

MaxLog == 8

MaxBody == 3

EnvVariables == {varContext, 2, 3, 4}
EnvValues == {NewAtom("a"), Variable(2)}

\* The lookup results of every variable under the environment rooted at r.
LookupTable(h, r) == [v \in EnvVariables |-> lookup([h |-> h, r |-> r], v)]

NoBind == [base |-> Nil, v |-> 0, t |-> rootContext]

NewEnv == [h |-> <<>>, r |-> Nil]

NoCall == [made |-> FALSE]

(***************************************************************************)
(* Promises (promise.go).  The Go heap of *Promise values is a sequence, a *)
(* pointer is an index into it and 0 is nil.  Closures are records of what *)
(* they captured; calling one is the operator Invoke, ApplyCont or         *)
(* CallRecover.                                                            *)
(***************************************************************************)
NilP == 0

\* &dummyCutParent: a promise that is never pushed on a stack.
DummyCutParent == -1

\* Bool(true) and Bool(false) return these two shared promises.
truePromise == 1

falsePromise == 2

NoErr == [e |-> "nil"]

Exception(term) == [e |-> "exception", term |-> term]

\* An error that is not an Exception.
GoError(msg) == [e |-> "error", msg |-> msg]

\* A panic value that is not an error.
GoValue(msg) == [e |-> "value", msg |-> msg]

\* ctx.Err() once the context is cancelled.
Canceled == GoError("context canceled")

NoFunc == [nf |-> "nil"]

NoRecover == [rf |-> "none"]

\* A NextFunc that hands the functions out from the last to the first.
makeNextFuncBackwards(k) ==
    [nf |-> "list", k |-> [i \in 1..Len(k) |-> k[Len(k) + 1 - i]]]

\* makeNextFunc: the functions still to hand out, the next one first.
makeNextFunc(k) == [nf |-> "list", k |-> k]

Promise(delayed, ok, err, cutParent, rep, rec) ==
    [delayed |-> delayed, ok |-> ok, err |-> err, cutParent |-> cutParent,
     repeat |-> rep, recover |-> rec]

DelaySeq(next) == Promise(next, FALSE, NoErr, NilP, FALSE, NoRecover)

Delay(k) == DelaySeq(makeNextFunc(k))

Bool(ok) == IF ok THEN truePromise ELSE falsePromise

Error(err) == Promise(NoFunc, FALSE, err, NilP, FALSE, NoRecover)

cut(parent, k) ==
    Promise(makeNextFunc(<<k>>), FALSE, NoErr,
            IF parent = NilP THEN DummyCutParent ELSE parent, FALSE, NoRecover)

repeat(k) == Promise(makeNextFunc(<<k>>), FALSE, NoErr, NilP, TRUE, NoRecover)

catch(rec, k) == Promise(makeNextFunc(<<k>>), FALSE, NoErr, NilP, FALSE, rec)

\* The heap right after package initialisation: truePromise and falsePromise.
PromiseHeap0 ==
    <<Promise(NoFunc, TRUE, NoErr, NilP, FALSE, NoRecover),
      Promise(NoFunc, FALSE, NoErr, NilP, FALSE, NoRecover)>>

\* What a call that yields a *Promise comes back with: the heap and the
\* pointer, or a panic with its value.
\* trace: the calls of the hook and the instructions executed on the way.
Ret(h, p) == [h |-> h, p |-> p, panic |-> FALSE, v |-> NoErr, trace |-> <<>>]

Panicked(h, v) == [h |-> h, p |-> NilP, panic |-> TRUE, v |-> v, trace |-> <<>>]

Traced(events, r) == [r EXCEPT !.trace = events \o r.trace]

\* &Promise{...}
AllocP(h, promise) == Ret(Append(h, promise), Len(h) + 1)

panicError(r) ==
    IF r.e = "exception"
    THEN r
    ELSE Exception(Cmp("error", <<Cmp("panic_error", <<NewAtom(r.msg)>>)>>))

\* defer ensurePromise(&promise)
ensurePromise(r) ==
    IF r.panic THEN Traced(r.trace, AllocP(r.h, Error(panicError(r.v)))) ELSE r

Success == [k |-> "Success"]

Failure == [k |-> "Failure"]

(***************************************************************************)
(* Bytecode and the clause compiler (clause.go), for goals without         *)
(* arguments of their own: a body is a sequence of Call, Cut and Exit.  A  *)
(* Call carries the argument terms that the Put instructions before it     *)
(* build.                                                                  *)
(***************************************************************************)
OpEnter == [op |-> "Enter"]

OpCut == [op |-> "Cut"]

OpExit == [op |-> "Exit"]

OpCall(name, args) == [op |-> "Call", name |-> name, args |-> args]

atomCut == NewAtom("!")

Conj(s, t) == Cmp(",", <<s, t>>)

Alt(s, t) == Cmp(";", <<s, t>>)

IsOp(t, functor) == IsCompound(t) /\ t.f = functor /\ Len(t.args) = 2

\* seqIterator: the goals of a comma sequence, left to right.
RECURSIVE seqIterator(_, _)
RECURSIVE seqNext(_, _)
seqNext(env, s) ==
    IF IsOp(s, ",")
    THEN <<s.args[1]>> \o seqIterator(env, s.args[2])
    ELSE <<s>>

seqIterator(env, body) == seqNext(env, Resolve(env, body))

\* altIterator: the alternatives of a disjunction, left to right.
RECURSIVE altIterator(_, _)
RECURSIVE altNext(_, _)
altNext(env, s) ==
    IF IsOp(s, ";")
    THEN <<s.args[1]>> \o altIterator(env, s.args[2])
    ELSE <<s>>

altIterator(env, body) == altNext(env, Resolve(env, body))

NotCallable == [ok |-> FALSE, ins |-> <<>>]

Emitted(ins) == [ok |-> TRUE, ins |-> ins]

\* c.emit: the instructions so far followed by more, unless a goal was not
\* callable.
emit(first, rest) ==
    IF first.ok /\ rest.ok THEN Emitted(first.ins \o rest.ins) ELSE NotCallable

\* compilePred for the resolved goal p.
compileResolved(p) ==
    CASE IsVar(p) -> Emitted(<<OpCall("call", <<p>>)>>)
      [] p.t = "atom" ->
            Emitted(IF p = atomCut THEN <<OpCut>> ELSE <<OpCall(p.a, <<>>)>>)
      [] IsCompound(p) -> Emitted(<<OpCall(p.f, p.args)>>)
      [] OTHER -> NotCallable

compilePred(env, g) == compileResolved(Resolve(env, g))

RECURSIVE compilePreds(_, _)
compilePreds(env, goals) ==
    IF goals = <<>>
    THEN Emitted(<<>>)
    ELSE emit(compilePred(env, Head(goals)), compilePreds(env, Tail(goals)))

compileBody(env, body) ==
    emit(Emitted(<<OpEnter>>), compilePreds(env, seqIterator(env, body)))

Clause(name, arity, bytecode) == [pi |-> <<name, arity>>, bytecode |-> bytecode]

\* The clause of the instructions r, closed by Exit.
Compiled(name, r) == [ok |-> r.ok, cs |-> <<Clause(name, 0, r.ins \o <<OpExit>>)>>]

\* compileClause for a head without arguments and the given body.
compileClause(name, env, body) == Compiled(name, compileBody(env, body))

\* compileClause for a fact.
Fact(name) == Clause(name, 0, <<OpExit>>)

\* cs = append(cs, c)
appendClauses(c, rest) == [ok |-> c.ok /\ rest.ok, cs |-> c.cs \o rest.cs]

RECURSIVE compileAlts(_, _, _)
compileAlts(name, env, alts) ==
    IF alts = <<>>
    THEN [ok |-> TRUE, cs |-> <<>>]
    ELSE appendClauses(compileClause(name, env, Head(alts)),
                       compileAlts(name, env, Tail(alts)))

\* compile(Head :- Body): one clause per alternative of the body.
compile(name, env, body) == compileAlts(name, env, altIterator(env, body))

piTerm(pi) == Cmp("/", <<NewAtom(pi[1]), Integer(pi[2])>>)

InstantiationError == Exception(Cmp("error", <<NewAtom("instantiation_error"), rootContext>>))

typeErrorCallable(culprit) ==
    Exception(Cmp("error", <<Cmp("type_error", <<NewAtom("callable"), culprit>>), rootContext>>))

existenceError(pi) ==
    Exception(Cmp("error",
        <<Cmp("existence_error", <<NewAtom("procedure"), piTerm(pi)>>), rootContext>>))

(***************************************************************************)
(* The interpreter (VM.exec, VM.Arrive), the control built-ins and the     *)
(* closures handed to the driver.  They run to the promise they return.    *)
(***************************************************************************)
Clauses(cs) == [kind |-> "clauses", cs |-> cs]

Native(fn) == [kind |-> "native", fn |-> fn]

\* clauses.call: one closure per clause, each cutting to the promise p that
\* holds them all.
call(h, cs, k, env) ==
    AllocP(h, Delay([i \in 1..Len(cs) |->
        [fn |-> "clause", c |-> cs[i], k |-> k, env |-> env,
         cutParent |-> Len(h) + 1, lab |-> <<i>>]]))

\* Throw, for the resolved ball; the copy of a ground ball is the ball.
ThrowResolved(h, ball) ==
    IF IsVar(ball)
    THEN AllocP(h, Error(InstantiationError))
    ELSE AllocP(h, Error(Exception(ball)))

Throw(h, ball, env) == ThrowResolved(h, Resolve(env, ball))

\* VM.Catch
Catch(h, goal, catcher, rec, k, env) ==
    AllocP(h, catch([rf |-> "Catch", catcher |-> catcher, recover |-> rec,
                     k |-> k, env |-> env],
                    [fn |-> "Call", goal |-> goal, k |-> k, env |-> env,
                     lab |-> <<0>>]))

\* VM.Call: the goal becomes the clauses of $call, called at once, so that a
\* cut in the goal cuts to the promise of that call.
CallCompiled(h, g, r, k, env) ==
    IF ~r.ok
    THEN AllocP(h, Error(typeErrorCallable(g)))
    ELSE call(h, r.cs, k, env)

CallResolved(h, g, k, env) ==
    IF IsVar(g)
    THEN AllocP(h, Error(InstantiationError))
    ELSE CallCompiled(h, g, compile("$call", env, g), k, env)

Call(h, goal, k, env) == CallResolved(h, Resolve(env, goal), k, env)

\* vm.hook == nil
NoHook == [installed |-> FALSE]

\* A HookFunc that returns err for the instructions with the opcode op (and,
\* for a call, the name of the procedure) and nil for the others.
HookFunc(op, name, err) == [op |-> op, name |-> name, err |-> err]

\* f(opcode, operand, env) for such a function.
hookCall(fn, op) ==
    IF fn.op = op.op /\ (op.op = "Call" => fn.name = op.name) THEN fn.err ELSE NoErr

\* CompositeHook(fs...): the functions are called in order up to the first
\* that returns an error.
CompositeHook(fs) == [installed |-> TRUE, fs |-> fs]

RECURSIVE compositeCall(_, _, _)
compositeCall(fs, i, op) ==
    IF i > Len(fs) THEN [err |-> NoErr, called |-> Len(fs)]
    ELSE IF hookCall(fs[i], op) # NoErr THEN [err |-> hookCall(fs[i], op), called |-> i]
    ELSE compositeCall(fs, i + 1, op)

\* vm.hook(op.opcode, op.operand, env)
hookResult(hook, op) == compositeCall(hook.fs, 1, op)

HookEvent(op, r) == [ev |-> "hook", op |-> op, err |-> r.err, called |-> r.called]

ExecEvent(op, hooked) == [ev |-> "exec", op |-> op, hooked |-> hooked]

RECURSIVE exec(_, _, _, _, _)
RECURSIVE execOp(_, _, _, _, _, _)
RECURSIVE Arrive(_, _, _, _, _)
RECURSIVE ApplyCont(_, _, _)

\* A native predicate, called with its arguments.
NativeCall(h, fn, args, k, env) ==
    CASE fn = "call" -> Call(h, args[1], k, env)
      [] fn = "catch" -> Catch(h, args[1], args[2], args[3], k, env)
      [] fn = "throw" -> Throw(h, args[1], env)
      [] fn = "panic" -> Panicked(h, GoValue("native"))
      [] fn = "succeed" -> ApplyCont(h, k, env)

\* p.call(vm, args, k, env)
procedureCall(h, p, args, k, env) ==
    IF p.kind = "clauses"
    THEN call(h, p.cs, k, env)
    ELSE NativeCall(h, p.fn, args, k, env)

\* vm.Unknown(name, args, env)
UnknownEvent(name, args, env) == [ev |-> "unknown", name |-> name, args |-> args, env |-> env]

\* An Arrive for which an unknown procedure is always an error.
ArriveBodyStrict(h, name, args, k, env) ==
    IF <<name, Len(args)>> \notin DOMAIN procedures
    THEN AllocP(h, Error(existenceError(<<name, Len(args)>>)))
    ELSE procedureCall(h, procedures[<<name, Len(args)>>], args, k,
                       bind(env, varContext, piTerm(<<name, Len(args)>>)))

ArriveBody(h, name, args, k, env) ==
    IF <<name, Len(args)>> \notin DOMAIN procedures
    THEN CASE vmUnknown = "warning" ->
                 Traced(<<UnknownEvent(name, args, env)>>, Ret(h, Bool(FALSE)))
           [] vmUnknown = "fail" -> Ret(h, Bool(FALSE))
           [] OTHER -> AllocP(h, Error(existenceError(<<name, Len(args)>>)))
    ELSE procedureCall(h, procedures[<<name, Len(args)>>], args, k,
                       bind(env, varContext, piTerm(<<name, Len(args)>>)))

Arrive(h, name, args, k, env) == ensurePromise(ArriveBody(h, name, args, k, env))

\* op, pc = pc[0], pc[1:] and the case of op.
execOp(h, op, pc, cont, env, cutParent) ==
    CASE op.op = "Enter" -> exec(h, pc, cont, env, cutParent)
      [] op.op = "Call" ->
            Arrive(h, op.name, op.args,
                   [k |-> "exec", pc |-> pc, cont |-> cont, cutParent |-> cutParent],
                   env)
      [] op.op = "Exit" -> ApplyCont(h, cont, env)
      [] op.op = "Cut" ->
            AllocP(h, cut(cutParent,
                          [fn |-> "exec", pc |-> pc, k |-> cont, env |-> env,
                           cutParent |-> cutParent, lab |-> <<0>>]))

\* if vm.hook != nil { if err := vm.hook(...); err != nil { return Error(err) } }
\* and then the switch.
execHooked(h, op, pc, cont, env, cutParent, hook) ==
    IF hook = NoHook
    THEN Traced(<<ExecEvent(op, FALSE)>>, execOp(h, op, pc, cont, env, cutParent))
    ELSE IF hookResult(hook, op).err # NoErr
    THEN Traced(<<HookEvent(op, hookResult(hook, op))>>,
                AllocP(h, Error(hookResult(hook, op).err)))
    ELSE Traced(<<HookEvent(op, hookResult(hook, op)), ExecEvent(op, TRUE)>>,
                execOp(h, op, pc, cont, env, cutParent))

exec(h, pc, cont, env, cutParent) ==
    execHooked(h, Head(pc), Tail(pc), cont, env, cutParent, vmHook)

\* k(env) for a continuation k.
ApplyCont(h, k, env) ==
    CASE k.k = "Success" -> Ret(h, Bool(TRUE))
      [] k.k = "Failure" -> Ret(h, Bool(FALSE))
      [] k.k = "exec" -> exec(h, k.pc, k.cont, env, k.cutParent)

(***************************************************************************)
(* Promise functions written directly against promise.go, as the tests do: *)
(* a tree says what each function returns when it is invoked.              *)
(***************************************************************************)
TTrue == [k |-> "Bool", ok |-> TRUE]

TFalse == [k |-> "Bool", ok |-> FALSE]

TError(err) == [k |-> "Error", err |-> err]

TPanic(v) == [k |-> "panic", v |-> v]

TCount(n) == [k |-> "count", n |-> n]

TDelay(c) == [k |-> "Delay", c |-> c]

TCut(t) == [k |-> "cut", c |-> <<t>>]

TRepeat(t) == [k |-> "repeat", c |-> <<t>>]

TCatch(rec, t) == [k |-> "catch", rec |-> rec, c |-> <<t>>]

TDelaySeq(v) == [k |-> "DelaySeq", v |-> v]

NodeFunc(t, path) == [fn |-> "node", tree |-> t, lab |-> path]

Children(t, path) == [i \in 1..Len(t.c) |-> NodeFunc(t.c[i], path \o <<i>>)]

RecoverNil == [rf |-> "nil"]

RecoverWith(t) == [rf |-> "tree", tree |-> t]

\* The promise function of tree t invoked for the (n+1)-th time.
NodePromise(h, t, path, n) ==
    CASE t.k = "Bool" -> Ret(h, Bool(t.ok))
      [] t.k = "Error" -> AllocP(h, Error(t.err))
      [] t.k = "panic" -> Panicked(h, t.v)
      [] t.k = "count" -> Ret(h, Bool(n + 1 >= t.n))
      [] t.k = "Delay" -> AllocP(h, Delay(Children(t, path)))
      [] t.k = "cut" -> AllocP(h, cut(NilP, Children(t, path)[1]))
      [] t.k = "repeat" -> AllocP(h, repeat(Children(t, path)[1]))
      [] t.k = "catch" -> AllocP(h, catch(t.rec, Children(t, path)[1]))
      [] t.k = "DelaySeq" -> AllocP(h, DelaySeq([nf |-> "panic", v |-> t.v]))

\* promiseFn(ctx) for a closure f invoked n times before.
Invoke(h, f, n) ==
    CASE f.fn = "node" -> NodePromise(h, f.tree, f.lab, n)
      [] f.fn = "clause" -> exec(h, f.c.bytecode, f.k, f.env, f.cutParent)
      [] f.fn = "exec" -> exec(h, f.pc, f.k, f.env, f.cutParent)
      [] f.fn = "Call" -> Call(h, f.goal, f.k, f.env)

\* recover(err) for a recovering function.
\* The recovering function of VM.Catch once the catcher was unified with
\* the ball.
CatchUnified(h, rec, r) ==
    IF ~r.ok THEN Ret(h, NilP) ELSE Call(h, rec.recover, rec.k, r.env)

CallRecover(h, rec, err) ==
    CASE rec.rf = "nil" -> Ret(h, NilP)
      [] rec.rf = "tree" -> NodePromise(h, rec.tree, <<0>>, 0)
      [] rec.rf = "Catch" ->
            IF err.e # "exception"
            THEN Ret(h, NilP)
            ELSE CatchUnified(h, rec,
                     unify(rec.env, rec.catcher, err.term, FALSE, MaxDepth))

(***************************************************************************)
(* The driver (Promise.Force) and what it calls.                           *)
(***************************************************************************)
pop(s) == [p |-> s[Len(s)], s |-> SubSeq(s, 1, Len(s) - 1)]

RECURSIVE popUntil(_, _)
popUntil(s, p) ==
    IF s = <<>>
    THEN s
    ELSE IF pop(s).p = p THEN pop(s).s ELSE popUntil(pop(s).s, p)

Recovered(h, s, err) == [h |-> h, s |-> s, err |-> err, panic |-> FALSE, v |-> NoErr]

\* promiseStack.recover: err is NoErr when a recovering function took the
\* error; a panic in a recovering function is not recovered here.
\* A recover that gives up at the first recovering function that returns nil.
recoverOnce(q, s, err) ==
    IF q.panic
    THEN [h |-> q.h, s |-> s, err |-> err, panic |-> TRUE, v |-> q.v]
    ELSE IF q.p # NilP
         THEN Recovered(q.h, Append(s, q.p), NoErr)
         ELSE Recovered(q.h, <<>>, err)

RECURSIVE recover(_, _, _)
RECURSIVE recoverWith(_, _, _)
\* q := pop.recover(err), with s the stack below pop.
recoverWith(q, s, err) ==
    IF q.panic
    THEN [h |-> q.h, s |-> s, err |-> err, panic |-> TRUE, v |-> q.v]
    ELSE IF q.p # NilP
         THEN Recovered(q.h, Append(s, q.p), NoErr)
         ELSE recover(q.h, s, err)

recover(h, s, err) ==
    IF s = <<>>
    THEN Recovered(h, s, err)
    ELSE IF h[pop(s).p].recover = NoRecover
         THEN recover(h, pop(s).s, err)
         ELSE recoverWith(CallRecover(h, h[pop(s).p].recover, err), pop(s).s, err)

\* How often the function f was invoked before.
Invocations(log, f) == Cardinality({i \in 1..Len(log) : log[i] = f.lab})

\* The NextFunc of p yields a function.
Yields(h, p) == h[p].delayed.nf = "list" /\ h[p].delayed.k # <<>>

\* promise = promiseFn(ctx), then the new NextFunc of a repeat.
childPromise(p, promiseFn, r) ==
    IF r.panic \/ ~r.h[p].repeat
    THEN r
    ELSE [r EXCEPT !.h = [r.h EXCEPT ![p].delayed = makeNextFunc(<<promiseFn>>)]]

\* A NextFunc that would not advance: the same function is yielded again.
childNextStuck(h, p, k, log) ==
    IF k = <<>>
    THEN Ret([h EXCEPT ![p].delayed = NoFunc], NilP)
    ELSE childPromise(p, Head(k), Invoke(h, Head(k), Invocations(log, Head(k))))

\* promiseFn, ok := (*p.delayed)() for a NextFunc made by makeNextFunc.
childNext(h, p, k, log) ==
    IF k = <<>>
    THEN Ret([h EXCEPT ![p].delayed = NoFunc], NilP)
    ELSE childPromise(p, Head(k),
             Invoke([h EXCEPT ![p].delayed = makeNextFunc(Tail(k))], Head(k),
                    Invocations(log, Head(k))))

childBody(h, p, log) ==
    IF h[p].delayed.nf = "panic"
    THEN Panicked(h, h[p].delayed.v)
    ELSE childNext(h, p, h[p].delayed.k, log)

child(h, p, log) == ensurePromise(childBody(h, p, log))

\* case <-ctx.Done()
CtxNeverDone(cancelled) == FALSE

CtxDone(cancelled) == cancelled

\* What the promise q held when it was pushed and what was below it.
Pushed(h, q, below) ==
    [base |-> below,
     of |-> IF h[q].delayed.nf = "list" /\ h[q].delayed.k # <<>>
                /\ h[q].delayed.k[1].fn = "clause"
            THEN h[q].delayed.k[1].c.pi[1]
            ELSE "none"]

NoCut == [made |-> FALSE]

NoRecovery == [made |-> FALSE]

NoCancel == [made |-> FALSE]

NoResult == [ok |-> FALSE, err |-> NoErr]

ForceIdle ==
    /\ procedures = <<>>
    /\ fHeap = PromiseHeap0
    /\ fStack = <<>>
    /\ fPc = "idle"
    /\ fResult = NoResult
    /\ fCancelled = FALSE
    /\ fInput = TFalse
    /\ fLog = <<>>
    /\ fNext = 0
    /\ fIter = 0
    /\ fSeen = NoCancel
    /\ fBase = <<>>
    /\ fCut = NoCut
    /\ fRec = NoRecovery

\* stack := promiseStack{p}
ForceStart(h, p) ==
    /\ fHeap = h
    /\ fStack = <<p>>
    /\ fPc = "poll"
    /\ fResult = NoResult
    /\ fCancelled = FALSE
    /\ fLog = <<>>
    /\ fNext = 0
    /\ fIter = 0
    /\ fSeen = NoCancel
    /\ fBase = (p :> Pushed(h, p, <<>>))
    /\ fCut = NoCut
    /\ fRec = NoRecovery

\* for len(stack) > 0 { select { case <-ctx.Done(): ... default: ... } }
ForcePoll ==
    /\ fPc = "poll"
    /\ IF fStack = <<>>
       THEN fPc' = "done" /\ fResult' = [ok |-> FALSE, err |-> NoErr]
       ELSE IF CtxDone(fCancelled)
            THEN fPc' = "done" /\ fResult' = [ok |-> FALSE, err |-> Canceled]
            ELSE fPc' = "body" /\ fResult' = fResult
    /\ UNCHANGED <<procedures, fHeap, fStack, fCancelled, fInput, fLog, fNext,
                   fIter, fSeen, fBase, fCut, fRec>>
    /\ UNCHANGED <<envVars, unifyVars, laterVars>>

\* A recovery that would leave on the stack what was above the catch.
ForceRecoverKeeping(p, s, r) ==
    /\ fHeap' = r.h
    /\ fStack' = IF ~r.panic /\ r.err = NoErr THEN Append(s, pop(r.s).p) ELSE r.s
    /\ fRec' = [made |-> TRUE, err |-> fHeap[p].err, h |-> fHeap, before |-> s,
                after |-> IF ~r.panic /\ r.err = NoErr THEN Append(s, pop(r.s).p) ELSE r.s,
                left |-> r.err, panic |-> r.panic]
    /\ IF r.panic
       THEN fPc' = "panicked" /\ fResult' = [ok |-> FALSE, err |-> r.v]
       ELSE IF r.err # NoErr
            THEN fPc' = "done" /\ fResult' = [ok |-> FALSE, err |-> r.err]
            ELSE fPc' = "poll" /\ fResult' = fResult
    /\ fBase' = IF ~r.panic /\ r.err = NoErr
                THEN (pop(r.s).p :> Pushed(r.h, pop(r.s).p, pop(r.s).s)) @@ fBase
                ELSE fBase


\* case p.err != nil: err := stack.recover(p.err)
ForceRecover(p, s, r) ==
    /\ fHeap' = r.h
    /\ fStack' = r.s
    /\ fRec' = [made |-> TRUE, err |-> fHeap[p].err, h |-> fHeap, before |-> s,
                after |-> r.s, left |-> r.err, panic |-> r.panic]
    /\ IF r.panic
       THEN fPc' = "panicked" /\ fResult' = [ok |-> FALSE, err |-> r.v]
       ELSE IF r.err # NoErr
            THEN fPc' = "done" /\ fResult' = [ok |-> FALSE, err |-> r.err]
            ELSE fPc' = "poll" /\ fResult' = fResult
    /\ fBase' = IF ~r.panic /\ r.err = NoErr
                THEN (pop(r.s).p :> Pushed(r.h, pop(r.s).p, pop(r.s).s)) @@ fBase
                ELSE fBase

\* p.delayed == nil
ForceTerminal(p, s) ==
    IF fHeap[p].err # NoErr
    THEN ForceRecover(p, s, recover(fHeap, s, fHeap[p].err))
    ELSE /\ fStack' = s
         /\ IF fHeap[p].ok
            THEN fPc' = "done" /\ fResult' = [ok |-> TRUE, err |-> NoErr]
            ELSE fPc' = "poll" /\ fResult' = fResult
         /\ UNCHANGED <<fHeap, fRec, fBase>>

\* q := p.child(ctx) and the append, on the stack s2 left by the cut.
ForceChild(p, s2, q) ==
    /\ fHeap' = q.h
    /\ fStack' = IF q.p = NilP THEN Append(s2, p) ELSE s2 \o <<p, q.p>>
    /\ fBase' = IF q.p = NilP THEN fBase
                ELSE (q.p :> Pushed(q.h, q.p, Append(s2, p))) @@ fBase

\* if p.cutParent != nil { stack.popUntil(p.cutParent); p.cutParent = nil }
ForceCut(p, s, s2) ==
    /\ fCut' = IF fHeap[p].cutParent # NilP
               THEN [made |-> TRUE, parent |-> fHeap[p].cutParent, before |-> s,
                     after |-> s2]
               ELSE fCut
    /\ ForceChild(p, s2, child([fHeap EXCEPT ![p].cutParent = NilP], p, fLog))

\* p.delayed != nil: the cut, then the next child.
ForceDelayed(p, s) ==
    /\ ForceCut(p, s, IF fHeap[p].cutParent # NilP
                      THEN popUntil(s, fHeap[p].cutParent)
                      ELSE s)
    /\ fPc' = "poll"
    /\ fLog' = IF Yields(fHeap, p) THEN Append(fLog, Head(fHeap[p].delayed.k).lab)
               ELSE fLog
    /\ fNext' = fNext + 1
    /\ UNCHANGED <<fResult, fRec>>

ForceBodyStep ==
    /\ fPc = "body"
    /\ fIter' = fIter + 1
    /\ IF fHeap[pop(fStack).p].delayed = NoFunc
       THEN ForceTerminal(pop(fStack).p, pop(fStack).s)
            /\ UNCHANGED <<fLog, fNext, fCut>>
       ELSE ForceDelayed(pop(fStack).p, pop(fStack).s)
    /\ UNCHANGED <<procedures, fCancelled, fInput, fSeen>>

ForceBody == ForceBodyStep /\ UNCHANGED <<envVars, unifyVars, laterVars>>

\* cancel() from another goroutine, before or while Force runs.
Cancel ==
    /\ fPc \in {"poll", "body"}
    /\ ~fCancelled
    /\ fCancelled' = TRUE
    /\ fSeen' = [made |-> TRUE, pc |-> fPc, iter |-> fIter, log |-> fLog, next |-> fNext]
    /\ UNCHANGED <<procedures, fHeap, fStack, fPc, fResult, fInput, fLog, fNext,
                   fIter, fBase, fCut, fRec>>
    /\ UNCHANGED <<envVars, unifyVars, laterVars>>


(***************************************************************************)
(* The procedure database (builtin.go): assert, retract, abolish,          *)
(* current_predicate and the call of a procedure with one argument.  The   *)
(* database vm.procedures is a Go map from procedure indicators to         *)
(* procedures; a slice of clauses is a sequence.                           *)
(***************************************************************************)
OpGetConst(c) == [op |-> "GetConst", operand |-> c]

atomTrue == NewAtom("true")

atomIf == ":-"

Rule(head, body) == Cmp(atomIf, <<head, body>>)

Static(cs) == [kind |-> "static", cs |-> cs]

Builtin(cs) == [kind |-> "builtin", cs |-> cs]

\* A clause as compile leaves it: its indicator, the term it came from and
\* its instructions.  id tells apart two clauses made from equal terms.
DbClause(pi, raw, bytecode, id) ==
    [pi |-> pi, raw |-> raw, bytecode |-> bytecode, id |-> id]

\* piArgs: the indicator and the arguments of a callable term.
PiOf(pi, args) == [err |-> NoErr, pi |-> pi, args |-> args]

PiError(err) == [err |-> err, pi |-> <<"", 0>>, args |-> <<>>]

piArgsResolved(t) ==
    CASE IsVar(t) -> PiError(InstantiationError)
      [] t.t = "atom" -> PiOf(<<t.a, 0>>, <<>>)
      [] IsCompound(t) -> PiOf(<<t.f, Len(t.args)>>, t.args)
      [] OTHER -> PiError(typeErrorCallable(t))

piArgs(t, env) == piArgsResolved(Resolve(env, t))

\* Rulify: Head :- Body for a clause term, Head :- true for a fact.
rulifyResolved(t) == IF IsOp(t, atomIf) THEN t ELSE Rule(t, atomTrue)

Rulify(t, env) == rulifyResolved(Resolve(env, t))

permissionErrorModifyStaticProcedure(culprit) ==
    Exception(Cmp("error",
        <<Cmp("permission_error",
              <<NewAtom("modify"), NewAtom("static_procedure"), culprit>>),
          rootContext>>))

\* c.compileHead for a head whose arguments are atomic: one GetConst each.
compileHeadArgs(args) == [i \in 1..Len(args) |-> OpGetConst(args[i])]

compileHeadResolved(head) ==
    IF IsCompound(head) THEN compileHeadArgs(head.args) ELSE <<>>

compileHead(head, env) == compileHeadResolved(Resolve(env, head))

\* compileClause with a head that has arguments; body is <<>> for a fact and
\* <<Body>> for a rule.
clauseOf(pa, raw, head, r, id, body) ==
    [ok |-> r.ok,
     err |-> IF r.ok THEN NoErr ELSE typeErrorCallable(body[1]),
     cs |-> <<DbClause(pa.pi, raw, head \o r.ins \o <<OpExit>>, id)>>]

compileDbClause(head, body, raw, env, id) ==
    clauseOf(piArgs(head, env), raw, compileHead(head, env),
             IF body = <<>> THEN Emitted(<<>>) ELSE compileBody(env, body[1]),
             id, body)

\* compile(t, env) for a clause whose body has one alternative.
compileDbResolved(t, env, id) ==
    IF IsOp(t, atomIf)
    THEN compileDbClause(t.args[1], <<t.args[2]>>, t, env, id)
    ELSE compileDbClause(t, <<>>, t, env, id)

compileDb(t, env, id) == compileDbResolved(Resolve(env, t), env, id)

\* What a database built-in returns and leaves: res is "k" for k(env),
\* "error" for Error(err), "false" for Bool(false), "delay" for a promise
\* that has still to be forced.
DbOk(procs) == [res |-> "k", err |-> NoErr, procs |-> procs]

DbError(err, procs) == [res |-> "error", err |-> err, procs |-> procs]

DbFalse(procs) == [res |-> "false", err |-> NoErr, procs |-> procs]

DbDelay(procs) == [res |-> "delay", err |-> NoErr, procs |-> procs]

\* vm.procedures[pi] = p
SetProc(procs, pi, p) == (pi :> p) @@ procs

\* delete(vm.procedures, key)
DeleteProc(procs, key) == [k \in DOMAIN procs \ {key} |-> procs[k]]

\* A merge that puts the new clauses on the wrong side.
mergeMisplaced(existing, new) == new \o existing

\* Assertz: append(existing, new...)
mergeAssertz(existing, new) == existing \o new

\* Asserta: append(new, existing...)
mergeAsserta(existing, new) == new \o existing

\* A store that lets a modification of a static procedure through.
assertStoreAnyway(procs, pi, p, merged, force) ==
    IF p.kind \in {"clauses", "static", "builtin"}
    THEN DbOk(SetProc(procs, pi, [kind |-> p.kind, cs |-> merged]))
    ELSE DbError(permissionErrorModifyStaticProcedure(piTerm(pi)), procs)

\* switch existing := p.(type)
assertStore(procs, pi, p, merged, force) ==
    CASE p.kind = "clauses" -> DbOk(SetProc(procs, pi, Clauses(merged)))
      [] p.kind \in {"builtin", "static"} ->
            IF ~force
            THEN DbError(permissionErrorModifyStaticProcedure(piTerm(pi)), procs)
            ELSE DbOk(SetProc(procs, pi, [kind |-> p.kind, cs |-> merged]))
      [] OTHER -> DbError(permissionErrorModifyStaticProcedure(piTerm(pi)), procs)

\* added, err := compile(t, env) and the store.
assertCompiled(procs, pi, p, added, mergeZ, force) ==
    IF ~added.ok
    THEN DbError(added.err, procs)
    ELSE assertStore(procs, pi, p,
                     IF mergeZ THEN mergeAssertz(p.cs, added.cs)
                     ELSE mergeAsserta(p.cs, added.cs),
                     force)

\* p, ok := vm.procedures[pi]
assertLookup(procs, pi, force) ==
    IF pi \in DOMAIN procs
    THEN procs[pi]
    ELSE IF force THEN Static(<<>>) ELSE Clauses(<<>>)

assertAt(procs, t, pa, mergeZ, force, env, id) ==
    IF pa.err # NoErr
    THEN DbError(pa.err, procs)
    ELSE assertCompiled(procs, pa.pi, assertLookup(procs, pa.pi, force),
                        compileDb(t, env, id), mergeZ, force)

\* case ":-"/1 is a directive, case ":-"/2 takes the indicator of the head.
assertPi(procs, t, pa, mergeZ, force, env, id) ==
    CASE pa.err # NoErr -> DbError(pa.err, procs)
      [] pa.pi = <<atomIf, 1>> ->
            IF piArgs(pa.args[1], env).err # NoErr
            THEN DbError(piArgs(pa.args[1], env).err, procs)
            ELSE DbDelay(procs)
      [] pa.pi = <<atomIf, 2>> ->
            assertAt(procs, t, piArgs(pa.args[1], env), mergeZ, force, env, id)
      [] OTHER -> assertAt(procs, t, pa, mergeZ, force, env, id)

\* vm.assert(t, force, merge, k, env); mergeZ says that merge is the one of
\* Assertz.
assert(procs, t, force, mergeZ, env, id) ==
    assertPi(procs, t, piArgs(t, env), mergeZ, force, env, id)

Assertz(procs, t, env, id) == assert(procs, t, FALSE, TRUE, env, id)

Asserta(procs, t, env, id) == assert(procs, t, FALSE, FALSE, env, id)


\* The solutions of a call, in the order in which Force reaches them, and
\* the error that ends them, if any.  A solution is the clause of the called
\* procedure that gave it and the environment handed to the continuation.
NoSolutions == [sols |-> <<>>, err |-> NoErr]

OneSolution(id, env) == [sols |-> <<[id |-> id, env |-> env]>>, err |-> NoErr]

ErrorStream(err) == [sols |-> <<>>, err |-> err]

\* The solutions of the first alternative, then those of the rest, unless an
\* error ended the search.
Cat(a, b) == IF a.err # NoErr THEN a ELSE [sols |-> a.sols \o b.sols, err |-> b.err]

RECURSIVE execDb(_, _, _, _, _, _)
RECURSIVE execDbOp(_, _, _, _, _, _, _)
RECURSIVE execDbUnified(_, _, _, _, _, _)
RECURSIVE execDbEach(_, _, _, _, _, _)
RECURSIVE execDbAfter(_, _, _, _, _)
RECURSIVE runKs(_, _, _, _, _)
RECURSIVE callDb(_, _, _, _, _)
RECURSIVE arriveDb(_, _, _, _, _)

\* clauses.call: ks[i] runs clause i; Force invokes them in the order in
\* which the NextFunc of Delay(ks...) yields them.
runKs(procs, ks, args, env, fuel) ==
    IF ks = <<>>
    THEN NoSolutions
    ELSE Cat(execDb(procs, Head(ks).bytecode, args, env, Head(ks).id, fuel),
             runKs(procs, Tail(ks), args, env, fuel))

callDb(procs, cs, args, env, fuel) ==
    runKs(procs, makeNextFunc(cs).k, args, env, fuel)

\* VM.Arrive
arriveDb(procs, name, args, env, fuel) ==
    IF <<name, Len(args)>> \notin DOMAIN procs
    THEN ErrorStream(existenceError(<<name, Len(args)>>))
    ELSE callDb(procs, procs[<<name, Len(args)>>].cs, args,
                bind(env, varContext, piTerm(<<name, Len(args)>>)), fuel)

\* env, ok = env.Unify(arg, operand)
execDbUnified(procs, r, pc, args, id, fuel) ==
    IF r.ok THEN execDb(procs, pc, args, r.env, id, fuel) ELSE NoSolutions

\* The continuation of a Call, for each solution of the called procedure.
execDbEach(procs, sols, pc, id, fuel, err) ==
    IF sols = <<>>
    THEN ErrorStream(err)
    ELSE Cat(execDb(procs, pc, <<>>, Head(sols).env, id, fuel),
             execDbEach(procs, Tail(sols), pc, id, fuel, err))

execDbAfter(procs, sub, pc, id, fuel) ==
    execDbEach(procs, sub.sols, pc, id, fuel, sub.err)

execDbOp(procs, op, pc, args, env, id, fuel) ==
    CASE op.op = "GetConst" ->
            execDbUnified(procs, unify(env, Head(args), op.operand, FALSE, MaxDepth),
                          pc, Tail(args), id, fuel)
      [] op.op = "Enter" -> execDb(procs, pc, args, env, id, fuel)
      [] op.op = "Call" ->
            IF fuel = 0
            THEN NoSolutions
            ELSE execDbAfter(procs, arriveDb(procs, op.name, op.args, env, fuel - 1),
                             pc, id, fuel)
      [] op.op = "Exit" -> OneSolution(id, env)
      [] OTHER -> NoSolutions

\* vm.exec for the instructions of a clause of the database.
execDb(procs, pc, args, env, id, fuel) ==
    execDbOp(procs, Head(pc), Tail(pc), args, env, id, fuel)

\* Retract: the closures ks share cs and deleted; raws[i] was made when
\* Retract was called.
NoRetract == [active |-> FALSE]

RetractState(t, pi, cs, env) ==
    [active |-> TRUE, t |-> t, pi |-> pi, cs |-> cs, deleted |-> 0, next |-> 1,
     raws |-> [i \in 1..Len(cs) |-> Rulify(cs[i].raw, env)],
     ids |-> [i \in 1..Len(cs) |-> cs[i].id], env |-> env, asserted |-> FALSE]

RetractResult(r, st) == [r |-> r, st |-> st]

retractLookup(procs, t, pa, env) ==
    CASE pa.err # NoErr -> RetractResult(DbError(pa.err, procs), NoRetract)
      [] pa.pi \notin DOMAIN procs -> RetractResult(DbFalse(procs), NoRetract)
      [] procs[pa.pi].kind # "clauses" ->
            RetractResult(
                DbError(permissionErrorModifyStaticProcedure(piTerm(pa.pi)), procs),
                NoRetract)
      [] OTHER ->
            RetractResult(DbDelay(procs),
                          RetractState(t, pa.pi, procs[pa.pi].cs, env))

retractRule(procs, t, env) == retractLookup(procs, t, piArgs(t.args[1], env), env)

\* VM.Retract up to the promise it returns.
Retract(procs, t, env) == retractRule(procs, Rulify(t, env), env)

\* append(cs[:j], cs[j+1:]...) with j counted from 0.
removeAt(cs, j) == SubSeq(cs, 1, j) \o SubSeq(cs, j + 2, Len(cs))

\* vm.procedures[pi] = cs
retractStore(procs, st, cs) == SetProc(procs, st.pi, Clauses(cs))

\* The continuation of Unify in ks[i]: j := i - deleted, the removal,
\* deleted++ and the store.
retractRemove(procs, st, i) ==
    RetractResult(
        DbOk(retractStore(procs, st, removeAt(st.cs, (i - 1) - st.deleted))),
        [st EXCEPT !.cs = removeAt(st.cs, (i - 1) - st.deleted),
                   !.deleted = st.deleted + 1,
                   !.next = i + 1])

retractUnified(procs, st, i, r) ==
    IF r.ok
    THEN retractRemove(procs, st, i)
    ELSE RetractResult(DbFalse(procs), [st EXCEPT !.next = i + 1])

\* ks[i] of Retract, with i counted from 1.
retractK(procs, st, i) ==
    retractUnified(procs, st, i, unify(st.env, st.t, st.raws[i], FALSE, MaxDepth))

typeErrorPredicateIndicator(culprit) ==
    Exception(Cmp("error",
        <<Cmp("type_error", <<NewAtom("predicate_indicator"), culprit>>), rootContext>>))

typeErrorAtom(culprit) ==
    Exception(Cmp("error", <<Cmp("type_error", <<NewAtom("atom"), culprit>>), rootContext>>))

typeErrorInteger(culprit) ==
    Exception(Cmp("error", <<Cmp("type_error", <<NewAtom("integer"), culprit>>), rootContext>>))

domainErrorNotLessThanZero(culprit) ==
    Exception(Cmp("error",
        <<Cmp("domain_error", <<NewAtom("not_less_than_zero"), culprit>>), rootContext>>))

\* key := ProcedureIndicator{Name: name, Arity: arity} and what follows.
abolishKey(procs, name, arity) ==
    IF <<name.a, arity.i>> \notin DOMAIN procs
       \/ procs[<<name.a, arity.i>>].kind # "clauses"
    THEN DbError(permissionErrorModifyStaticProcedure(Cmp("/", <<name, arity>>)), procs)
    ELSE DbOk(DeleteProc(procs, <<name.a, arity.i>>))

abolishArity(procs, name, arity) ==
    CASE IsVar(arity) -> DbError(InstantiationError, procs)
      [] arity.t = "int" ->
            IF arity.i < 0
            THEN DbError(domainErrorNotLessThanZero(arity), procs)
            ELSE abolishKey(procs, name, arity)
      [] OTHER -> DbError(typeErrorInteger(arity), procs)

abolishName(procs, name, arity) ==
    CASE IsVar(name) -> DbError(InstantiationError, procs)
      [] name.t = "atom" -> abolishArity(procs, name, arity)
      [] OTHER -> DbError(typeErrorAtom(name), procs)

abolishResolved(procs, pi, env) ==
    CASE IsVar(pi) -> DbError(InstantiationError, procs)
      [] IsCompound(pi) ->
            IF pi.f # "/" \/ Len(pi.args) # 2
            THEN DbError(typeErrorPredicateIndicator(pi), procs)
            ELSE abolishName(procs, Resolve(env, pi.args[1]), Resolve(env, pi.args[2]))
      [] OTHER -> DbError(typeErrorPredicateIndicator(pi), procs)

\* VM.Abolish
Abolish(procs, pi, env) == abolishResolved(procs, Resolve(env, pi), env)

\* The check of the argument of current_predicate: TRUE when it is refused.
currentPredicateRefuses(pi, env) ==
    CASE IsVar(pi) -> FALSE
      [] IsCompound(pi) ->
            \/ pi.f # "/"
            \/ Len(pi.args) # 2
            \/ Resolve(env, pi.args[1]).t # "atom"
            \/ Resolve(env, pi.args[2]).t # "int"
      [] OTHER -> TRUE

\* The keys for which the loop over vm.procedures keeps a closure.
UserDefined(procs) == {key \in DOMAIN procs : procs[key].kind \in {"clauses", "static"}}

\* The orders in which a range over a Go map can visit the keys S: every
\* one.
RangeOrders(S) ==
    {order \in [1..Cardinality(S) -> S] :
        \A i, j \in 1..Cardinality(S) : order[i] = order[j] => i = j}

\* ks of CurrentPredicate forced to the end with a continuation that fails:
\* the indicators that unify with pi, in the order of ks.
RECURSIVE currentPredicateKs(_, _, _)
currentPredicateKs(pi, order, env) ==
    IF order = <<>>
    THEN <<>>
    ELSE (IF unify(env, pi, piTerm(Head(order)), FALSE, MaxDepth).ok
          THEN <<piTerm(Head(order))>>
          ELSE <<>>)
         \o currentPredicateKs(pi, Tail(order), env)

CurrentPredicateResolved(procs, pi, order, env) ==
    IF currentPredicateRefuses(pi, env)
    THEN ErrorStream(typeErrorPredicateIndicator(pi))
    ELSE [sols |-> currentPredicateKs(pi, order, env), err |-> NoErr]

\* VM.CurrentPredicate with the keys visited in the given order.
CurrentPredicate(procs, pi, order, env) ==
    CurrentPredicateResolved(procs, Resolve(env, pi), order, env)

NoOp == [op |-> "none"]

DbIdle ==
    /\ dbOrder = <<>>
    /\ dbRetract = NoRetract
    /\ dbLast = NoOp
    /\ dbTwin = NoOp
    /\ dbNextId = 0

ForceRestIdle ==
    /\ fHeap = PromiseHeap0
    /\ fStack = <<>>
    /\ fPc = "idle"
    /\ fResult = NoResult
    /\ fCancelled = FALSE
    /\ fInput = TFalse
    /\ fLog = <<>>
    /\ fNext = 0
    /\ fIter = 0
    /\ fSeen = NoCancel
    /\ fBase = <<>>
    /\ fCut = NoCut
    /\ fRec = NoRecovery


(***************************************************************************)
(* The variable counter (variable.go): NewVariable, SetMaxVariables and    *)
(* ResetEnv.  NewVariable adds one to the counter atomically, so calls     *)
(* from several goroutines happen one after the other.                     *)
(***************************************************************************)
\* n := atomic.AddInt64(&vm.varCounter, 1); return Variable(n)
NewVariable(counter) == [counter |-> counter + 1, v |-> counter + 1, refused |-> FALSE]

\* vm.maxVariables = n; maxVariables = n
SetMaxVariables(n) == [vmMax |-> n, max |-> n]

\* varCounter.count = 0; varContext = NewVariable(); ...;
\* maxVariables = vm.maxVariables
ResetEnv(vmMax) ==
    [made |-> NewVariable(0), context |-> NewVariable(0).v, max |-> vmMax]

VarsIdle ==
    /\ varCounter = 0
    /\ maxVariables = [vmMax |-> 0, max |-> 0]
    /\ varIssued = <<>>
    /\ varLast = [op |-> "none"]

(***************************************************************************)
(* The standard order of terms: Variable.Compare (variable.go),            *)
(* Float.Compare (float.go) and CompareAtomic (part_003); the comparison   *)
(* of integers, atoms and compounds follows the specification.             *)
(***************************************************************************)
\* A custom atomic term: its Go type and the value its cmp function reads.
Custom(type, val) == [t |-> "custom", type |-> type, val |-> val]

\* The strings of the model in lexicographic order.
StringOrder == <<"a", "b", "f", "g", "p.S", "p.T", "vars">>

StringRank(s) == CHOOSE i \in 1..Len(StringOrder) : StringOrder[i] = s

Sign(d) == IF d < 0 THEN -1 ELSE IF d > 0 THEN 1 ELSE 0

\* strings.Compare
stringsCompare(s, t) == Sign(StringRank(s) - StringRank(t))

\* apd.Decimal.Cmp: the values coef * 10^exp are compared.
decCmp(x, y) ==
    LET low == IF x.exp < y.exp THEN x.exp ELSE y.exp
    IN  Sign(x.coef * Pow10(x.exp - low) - y.coef * Pow10(y.exp - low))

\* The cmp function handed to CompareAtomic by a custom atomic type.
customCmp(x, y) == Sign(x.val - y.val)

\* A Float.Compare that would put floats and integers in numeric order.
FloatCompareNumeric(x, t) ==
    CASE t.t = "var" -> 1
      [] t.t = "float" -> decCmp(x, t)
      [] t.t = "int" -> IF decCmp(x, Float(t.i, 0)) = 0 THEN -1
                        ELSE decCmp(x, Float(t.i, 0))
      [] OTHER -> -1

\* Float.Compare, t resolved.
FloatCompare(x, t) ==
    CASE t.t = "var" -> 1
      [] t.t = "float" -> decCmp(x, t)
      [] OTHER -> -1

\* Integer.Compare, t resolved.
IntegerCompare(x, t) ==
    CASE t.t \in {"var", "float"} -> 1
      [] t.t = "int" -> Sign(x.i - t.i)
      [] OTHER -> -1

\* Atom.Compare, t resolved.
AtomCompare(x, t) ==
    CASE t.t \in {"var", "float", "int"} -> 1
      [] t.t = "atom" -> stringsCompare(x.a, t.a)
      [] OTHER -> -1

\* CompareAtomic, t resolved: case T is the term's own type.
CompareAtomic(x, t) ==
    CASE t.t \in {"var", "float", "int", "atom"} -> 1
      [] t.t = "custom" /\ t.type = x.type -> customCmp(x, t)
      [] t.t = "cmp" -> -1
      [] OTHER -> stringsCompare(x.type, t.type)

\* Variable.Compare once v is resolved to itself, t resolved.
VariableCompareResolved(v, t) ==
    IF t.t = "var"
    THEN IF v.v > t.v THEN 1 ELSE IF v.v < t.v THEN -1 ELSE 0
    ELSE -1

RECURSIVE TermCompare(_, _, _)
RECURSIVE CompareCompound(_, _, _)
RECURSIVE compareArgs(_, _, _, _)

\* Variable.Compare: a bound variable compares as the term it stands for.
VariableCompare(v, t, env) ==
    IF IsVar(Resolve(env, v))
    THEN VariableCompareResolved(Resolve(env, v), Resolve(env, t))
    ELSE TermCompare(Resolve(env, v), t, env)

\* The arguments from the i-th on, the first difference deciding.
compareArgs(x, y, i, env) ==
    IF i > Len(x.args) THEN 0
    ELSE IF TermCompare(x.args[i], y.args[i], env) # 0
    THEN TermCompare(x.args[i], y.args[i], env)
    ELSE compareArgs(x, y, i + 1, env)

\* CompareCompound, t resolved: by arity, then functor, then arguments.
CompareCompound(x, t, env) ==
    IF ~IsCompound(t) THEN 1
    ELSE IF Len(x.args) # Len(t.args) THEN Sign(Len(x.args) - Len(t.args))
    ELSE IF x.f # t.f THEN stringsCompare(x.f, t.f)
    ELSE compareArgs(x, t, 1, env)

\* x.Compare(t, env): the method of x's type.
TermCompare(x, t, env) ==
    CASE x.t = "var" -> VariableCompare(x, t, env)
      [] x.t = "float" -> FloatCompare(x, Resolve(env, t))
      [] x.t = "int" -> IntegerCompare(x, Resolve(env, t))
      [] x.t = "atom" -> AtomCompare(x, Resolve(env, t))
      [] x.t = "custom" -> CompareAtomic(x, Resolve(env, t))
      [] OTHER -> CompareCompound(x, Resolve(env, t), env)

NoCompare == [made |-> FALSE]

CmpIdle ==
    /\ cmpEnv = NewEnv
    /\ cmpSetup = 0
    /\ cmpLast = NoCompare

(***************************************************************************)
(* Integer arithmetic (builtin.go): the functions of DefaultFunctionSet    *)
(* for +, - and * through binaryNumber.  An int64 is modelled with IntBits *)
(* bits in two's complement.                                               *)
(***************************************************************************)
IntBits == 5

RECURSIVE Pow2(_)
Pow2(n) == IF n = 0 THEN 1 ELSE 2 * Pow2(n - 1)

MinInt == -Pow2(IntBits - 1)

MaxInt == Pow2(IntBits - 1) - 1

\* What Go's integer arithmetic keeps of the exact result x.
Wrap(x) == ((x - MinInt) % Pow2(IntBits)) + MinInt

\* The exact result of the operation on integers.
Exact(op, i, j) ==
    CASE op = "+" -> i + j
      [] op = "-" -> i - j
      [] op = "*" -> i * j

\* func(i, j int64) int64 { return i + j }, and so for - and *.
intFunction(op, i, j) == Wrap(Exact(op, i, j))

\* func(n, m float64) float64 { return n + m }, and so for - and *, on the
\* floats of the model, which are whole numbers.
floatFunction(op, n, m) == Float(Exact(op, n, m), 0)

typeErrorEvaluable(culprit) ==
    Exception(Cmp("error", <<Cmp("type_error", <<NewAtom("evaluable"), culprit>>), rootContext>>))

Evaluated(t) == [v |-> t, err |-> NoErr]

EvalError(err) == [v |-> atomTrue, err |-> err]

\* The function binaryNumber returns, for x resolved, applied to y resolved.
binaryNumberResolved(op, x, y) ==
    CASE x.t = "int" /\ y.t = "int" -> Evaluated(Integer(intFunction(op, x.i, y.i)))
      [] x.t = "int" /\ y.t = "float" -> Evaluated(floatFunction(op, x.i, y.coef))
      [] x.t = "float" /\ y.t = "int" -> Evaluated(floatFunction(op, x.coef, y.i))
      [] x.t = "float" /\ y.t = "float" -> Evaluated(floatFunction(op, x.coef, y.coef))
      [] x.t \in {"int", "float"} -> EvalError(typeErrorEvaluable(y))
      [] OTHER -> EvalError(typeErrorEvaluable(x))

binaryNumber(op, x, y, env) ==
    binaryNumberResolved(op, Resolve(env, x), Resolve(env, y))

NoEval == [made |-> FALSE]

ArithIdle == arLast = NoEval

HookIdle ==
    /\ vmHook = NoHook
    /\ hkRuns = <<>>
    /\ hkMark = 0
    /\ hkOps = 0
    /\ hkCaught = {}

(***************************************************************************)
(* Native predicates: Predicate0 .. Predicate8 and their call methods.     *)
(***************************************************************************)
MaxArity == 8

\* &wrongNumberOfArgumentsError{expected: n, actual: args}
wrongNumberOfArgumentsError(n, args) ==
    [e |-> "wrong number of arguments", expected |-> n, actual |-> args]

\* p(vm, args[0], .., args[n-1], k, env): the native function is invoked with
\* the first n arguments; the stand-in calls the continuation.
Invoked(n, args) ==
    [err |-> NoErr, invoked |-> TRUE, passed |-> [i \in 1..n |-> args[i]]]

NotInvoked(err) == [err |-> err, invoked |-> FALSE, passed |-> <<>>]

\* A call method that refuses only too few arguments.
predicateCallAtLeast(n, args) ==
    IF Len(args) < n
    THEN NotInvoked(wrongNumberOfArgumentsError(n, args))
    ELSE Invoked(n, args)

\* Predicate<n>.call(vm, args, k, env)
predicateCall(n, args) ==
    IF Len(args) # n
    THEN NotInvoked(wrongNumberOfArgumentsError(n, args))
    ELSE Invoked(n, args)

NoNative == [made |-> FALSE]

NativeIdle == ntLast = NoNative

NoArrive == [made |-> FALSE]

\* unknownError is the zero value of vm.unknown.
ArriveIdle ==
    /\ vmUnknown = "error"
    /\ ukLast = NoArrive

NoCollect == [made |-> FALSE]

CollectIdle == coLast = NoCollect

\* No dict: a nil Dict.
NoDictTerm == [t |-> "nil"]

NoDictOp == [op |-> "none"]

DictIdle ==
    /\ dcDict = NoDictTerm
    /\ dcLast = NoDictOp

NoCompile == [made |-> FALSE]

CompileIdle == cpLast = NoCompile

\* No stream opened yet.
NoStream == [source |-> "none"]

NoRead == [op |-> "none", n |-> 0]

ByteIdle ==
    /\ bsStream = NoStream
    /\ bsLast = NoRead

NoResolve == [pc |-> "idle"]

ResolveIdle ==
    /\ rsEnv = NewEnv
    /\ rsBinds = 0
    /\ rsRun = NoResolve

NoRun == [made |-> FALSE]

RunIdle == rnLast = NoRun

NoLiveCall == [made |-> FALSE, active |-> FALSE]

NoLiveRetract == [active |-> FALSE]

\* The procedure f/1 with the clauses f(a) and f(b), in an array of two.
LiveDatabase ==
    [arrays |-> <<<<[id |-> 1, raw |-> Cmp("f", <<NewAtom("a")>>)],
                  [id |-> 2, raw |-> Cmp("f", <<NewAtom("b")>>)]>>>>,
     proc |-> [arr |-> 1, len |-> 2], nextId |-> 1]

LiveIdle ==
    /\ lvDb = LiveDatabase
    /\ lvCall = NoLiveCall
    /\ lvRetract = NoLiveRetract

AgainIdle == rfRuns = <<>>

LastIdle == CompileIdle /\ ByteIdle /\ ResolveIdle /\ RunIdle /\ LiveIdle

PureIdle == NativeIdle /\ ArriveIdle /\ CollectIdle /\ DictIdle /\ LastIdle

MoreIdle == AgainIdle /\ ArithIdle /\ HookIdle /\ PureIdle

LaterIdle == DbIdle /\ VarsIdle /\ CmpIdle /\ MoreIdle

EnvIdle ==
    /\ envHeap = <<>>
    /\ envRoots = <<>>
    /\ envTables = <<>>
    /\ envLast = NoBind

UnifyIdle ==
    /\ uEnv = NewEnv
    /\ uSetup = 0
    /\ uCall = NoCall

InitEnv == EnvIdle /\ UnifyIdle /\ ForceIdle /\ LaterIdle

\* NewEnv() is the nil pointer; every other environment is a bind result.
BindEnv ==
    /\ Len(envRoots) < MaxEnvs
    /\ \E base \in {Nil} \cup {envRoots[i] : i \in 1..Len(envRoots)},
          v \in EnvVariables, t \in EnvValues :
          LET e == bind([h |-> envHeap, r |-> base], v, t)
          IN  /\ envHeap' = e.h
              /\ envRoots' = Append(envRoots, e.r)
              /\ envTables' = Append(envTables, LookupTable(e.h, e.r))
              /\ envLast' = [base |-> base, v |-> v, t |-> t]
    /\ UNCHANGED <<unifyVars, forceVars, laterVars>>

NextEnv == BindEnv

SpecEnv == InitEnv /\ [][NextEnv]_vars

\* C7: every environment obtained earlier still gives, for every variable, the
\* lookup result it gave when it was obtained, whatever binds came later.
C7_BindKeepsOlderEnvs ==
    \A i \in 1..Len(envRoots) :
        LookupTable(envHeap, envRoots[i]) = envTables[i]

\* NewEnv() itself never changes either: only the root binding is visible.
C7_Witness ==
    /\ Len(envRoots) = 3
    /\ envLast.base = envRoots[1]
    /\ \E v \in EnvVariables :
          /\ envTables[1][v].ok
          /\ envTables[3][v].ok
          /\ envTables[3][v] # envTables[1][v]
    /\ Len(envHeap) > 8

(***************************************************************************)
(* SpecUnify: an environment is built by a few unifications without occurs *)
(* check (so it may hold a cyclic binding), then unify is called in both   *)
(* argument orders on a pair of terms.                                     *)
(***************************************************************************)
MaxSetup == 2

X == Variable(2)
Y == Variable(3)
Z == Variable(4)
a == NewAtom("a")
b == NewAtom("b")
f(s) == Cmp("f", <<s>>)
g(s, t) == Cmp("g", <<s, t>>)

UVariables == {2, 3, 4}

SetupPairs == {<<Y, f(X)>>, <<Z, Y>>, <<X, a>>, <<Y, f(Y)>>, <<Z, g(X, Y)>>}

UTerms ==
    {X, Y, Z, a, b, Integer(1), Float(1, 0), Float(10, -1), Float(2, 0),
     f(X), f(Y), f(a), f(f(X)), Cmp("f", <<X, Y>>), Cmp("h", <<X>>),
     g(X, Y), g(Y, X), g(X, X), g(a, Z), g(f(Y), Y), g(Z, f(X))}

SetupUnify ==
    /\ ~uCall.made
    /\ uSetup < MaxSetup
    /\ \E p \in SetupPairs :
          LET r == unify(uEnv, p[1], p[2], FALSE, MaxDepth)
          IN  /\ r.ok
              /\ r.env # uEnv
              /\ uEnv' = r.env
    /\ uSetup' = uSetup + 1
    /\ uCall' = uCall
    /\ UNCHANGED <<envVars, forceVars, laterVars>>

CallUnify ==
    /\ ~uCall.made
    /\ \E x \in UTerms, y \in UTerms, oc \in BOOLEAN :
          uCall' = [made |-> TRUE, x |-> x, y |-> y, oc |-> oc,
                    xy |-> unify(uEnv, x, y, oc, MaxDepth),
                    yx |-> unify(uEnv, y, x, oc, MaxDepth)]
    /\ UNCHANGED <<uEnv, uSetup>>
    /\ UNCHANGED <<envVars, forceVars, laterVars>>

InitUnify == EnvIdle /\ UnifyIdle /\ ForceIdle /\ LaterIdle

NextUnify == SetupUnify \/ CallUnify

SpecUnify == InitUnify /\ [][NextUnify]_vars

(***************************************************************************)
(* SpecForce: Force on every promise built from at most MaxNodes promise   *)
(* functions, with a cancellation at any moment.                           *)
(***************************************************************************)
Ball == Exception(NewAtom("ball"))

Leaves ==
    {TTrue, TFalse, TError(Ball), TError(GoError("EOF")), TPanic(Ball),
     TPanic(GoValue("oops")), TCount(2), TDelaySeq(GoValue("next"))}

\* The recovering function of catch(Goal, Catcher, !).
RecoverCatch(catcher) ==
    [rf |-> "Catch", catcher |-> catcher, recover |-> atomCut, k |-> Success,
     env |-> NewEnv]

Recovers ==
    {RecoverNil, RecoverWith(TTrue), RecoverWith(TFalse),
     RecoverWith(TPanic(GoValue("recover"))),
     RecoverCatch(NewAtom("ball")), RecoverCatch(NewAtom("other")),
     RecoverCatch(Variable(2))}

RECURSIVE TreesOfSize(_)
RECURSIVE ForestsOfSize(_)
TreesOfSize(n) ==
    IF n = 1
    THEN Leaves \cup {TDelay(<<>>)}
    ELSE {TDelay(c) : c \in ForestsOfSize(n - 1)}
         \cup {TCut(t) : t \in TreesOfSize(n - 1)}
         \cup {TRepeat(t) : t \in TreesOfSize(n - 1)}
         \cup {TCatch(rec, t) : rec \in Recovers, t \in TreesOfSize(n - 1)}

ForestsOfSize(n) ==
    IF n = 0
    THEN {<<>>}
    ELSE UNION {{<<t>> \o c : t \in TreesOfSize(m), c \in ForestsOfSize(n - m)} :
                m \in 1..n}

\* A promise, not a function that panics or counts its invocations.
IsPromise(t) == t.k \notin {"panic", "count"}

\* The promise of TestPromise_ForceWithDelayedExecutions, the same without
\* its cut, and the same with no true leaf.
TestTree ==
    TDelay(<<TFalse,
             TDelay(<<TFalse, TDelay(<<TFalse, TCut(TTrue), TFalse>>), TFalse>>),
             TTrue>>)

TestTreeNoCut ==
    TDelay(<<TFalse,
             TDelay(<<TFalse, TDelay(<<TFalse, TTrue, TFalse>>), TFalse>>),
             TTrue>>)

TestTreeFalse ==
    TDelay(<<TFalse,
             TDelay(<<TFalse, TDelay(<<TFalse, TFalse>>), TFalse>>),
             TFalse>>)

RootTrees ==
    {t \in UNION {TreesOfSize(n) : n \in 1..MaxNodes} : IsPromise(t)}
    \cup {TestTree, TestTreeNoCut, TestTreeFalse}

InitForce ==
    /\ EnvIdle
    /\ LaterIdle
    /\ UnifyIdle
    /\ procedures = <<>>
    /\ fInput \in RootTrees
    /\ ForceStart(NodePromise(PromiseHeap0, fInput, <<>>, 0).h,
                  NodePromise(PromiseHeap0, fInput, <<>>, 0).p)

\* An endless search is followed for MaxLog invocations.
ForceBodyBounded == Len(fLog) < MaxLog /\ ForceBody

NextForce == ForcePoll \/ ForceBodyBounded \/ Cancel

SpecForce == InitForce /\ [][NextForce]_vars

(***************************************************************************)
(* SpecVM: Force on the promise of a query against a database of           *)
(* procedures without arguments.  q has two facts, t one, nope none, and   *)
(* p has the clause under test followed by a fact.                         *)
(***************************************************************************)
callGoal(goal) == Cmp("call", <<goal>>)

catchGoal(goal, catcher, rec) == Cmp("catch", <<goal, catcher, rec>>)

throwGoal(ball) == Cmp("throw", <<ball>>)

BodyGoals ==
    {atomCut, NewAtom("q"), NewAtom("nope"),
     callGoal(Conj(atomCut, atomCut)),
     callGoal(Conj(NewAtom("q"), atomCut)),
     catchGoal(Conj(NewAtom("q"), atomCut), NewAtom("ball"), NewAtom("t")),
     throwGoal(NewAtom("ball"))}

RECURSIVE BodiesOfLen(_)
BodiesOfLen(n) ==
    IF n = 1
    THEN BodyGoals
    ELSE {Conj(goal, rest) : goal \in BodyGoals, rest \in BodiesOfLen(n - 1)}

Bodies == UNION {BodiesOfLen(n) : n \in 1..MaxBody}

Queries ==
    {Conj(NewAtom("q"), Conj(NewAtom("p"), NewAtom("nope"))),
     Conj(NewAtom("q"), NewAtom("p")),
     catchGoal(Conj(NewAtom("q"), NewAtom("p")), Variable(2), NewAtom("q"))}

\* vm.procedures after the program was consulted and the control built-ins
\* registered.
Database(body) ==
    (<<"q", 0>> :> Clauses(<<Fact("q"), Fact("q")>>))
    @@ (<<"t", 0>> :> Clauses(<<Fact("t")>>))
    @@ (<<"nope", 0>> :> Clauses(<<>>))
    @@ (<<"p", 0>> :> Clauses(compile("p", NewEnv, body).cs \o <<Fact("p")>>))
    @@ (<<"call", 1>> :> Native("call"))
    @@ (<<"catch", 3>> :> Native("catch"))
    @@ (<<"throw", 1>> :> Native("throw"))

InitVM ==
    /\ EnvIdle
    /\ LaterIdle
    /\ UnifyIdle
    /\ fInput \in [query : Queries, body : Bodies]
    /\ procedures = Database(fInput.body)
    /\ ForceStart(Call(PromiseHeap0, fInput.query, Success, NewEnv).h,
                  Call(PromiseHeap0, fInput.query, Success, NewEnv).p)

NextVM == ForcePoll \/ ForceBody

SpecVM == InitVM /\ [][NextVM]_vars

(***************************************************************************)
(* The claims about cut.                                                   *)
(***************************************************************************)
\* The last cut was executed by a clause of a procedure of the database
\* (TRUE) or by the goal of a Call (FALSE)?
CutInProcedure ==
    /\ fCut.made
    /\ fCut.parent # DummyCutParent
    /\ fBase[fCut.parent].of \notin {"$call", "none"}

CutInCall ==
    /\ fCut.made
    /\ fCut.parent # DummyCutParent
    /\ fBase[fCut.parent].of = "$call"

\* C1: a cut in a clause body, the first or a later one, leaves on the stack
\* exactly the promises that were there before the clause's procedure was
\* called: it removes the promise of that call and what was pushed after it,
\* and nothing older.
C1_CutKeepsOlderPromises ==
    CutInProcedure => fCut.after = fBase[fCut.parent].base

\* A second cut of p's clause has emptied the stack that held the query and
\* the alternatives of q.
C1_Witness ==
    /\ CutInProcedure
    /\ fBase[fCut.parent].of = "p"
    /\ Len(fBase[fCut.parent].base) = 2
    /\ fCut.after = <<>>

\* C2: a cut in a goal run through Call leaves on the stack exactly the
\* promises that were there before Call was entered.
C2_CutInsideCallIsLocal ==
    CutInCall => fCut.after = fBase[fCut.parent].base

\* A second cut of the goal of a call/1 in p's clause has emptied the stack.
C2_Witness ==
    /\ CutInCall
    /\ Len(fBase[fCut.parent].base) = 3
    /\ fCut.after = <<>>

(***************************************************************************)
(* The claims about Force: search order, cancellation, errors, panics.     *)
(***************************************************************************)
\* Only Delay, Bool(true) and Bool(false).
RECURSIVE Pure(_)
Pure(t) ==
    \/ t.k = "Bool"
    \/ t.k = "Delay" /\ \A i \in 1..Len(t.c) : Pure(t.c[i])

\* The depth-first, left-to-right search of a pure tree: the functions it
\* invokes, by their paths and in order, and whether it finds a true leaf.
RECURSIVE Search(_, _)
RECURSIVE SearchFrom(_, _, _)
Search(t, path) ==
    IF t.k = "Bool" THEN [log |-> <<>>, ok |-> t.ok] ELSE SearchFrom(t.c, path, 1)

SearchFrom(c, path, i) ==
    IF i > Len(c)
    THEN [log |-> <<>>, ok |-> FALSE]
    ELSE LET first == Search(c[i], path \o <<i>>)
             rest == SearchFrom(c, path, i + 1)
         IN  IF first.ok
             THEN [log |-> <<path \o <<i>>>> \o first.log, ok |-> TRUE]
             ELSE [log |-> <<path \o <<i>>>> \o first.log \o rest.log, ok |-> rest.ok]

IsPrefix(s, t) == Len(s) <= Len(t) /\ SubSeq(t, 1, Len(s)) = s

\* C3: on a tree of Delay promises with Bool leaves, Force invokes the child
\* functions in the order of the depth-first, left-to-right search, none
\* before the search reaches it; it stops with (true, nil) at the first true
\* leaf, invoking nothing after it, and ends with (false, nil) when there is
\* none.
C3_ForceSearchesDepthFirst ==
    Pure(fInput) =>
        /\ IsPrefix(fLog, Search(fInput, <<>>).log)
        /\ (fPc = "done" /\ ~fCancelled =>
                /\ fLog = Search(fInput, <<>>).log
                /\ fResult = [ok |-> Search(fInput, <<>>).ok, err |-> NoErr])

\* The true leaf is found with three functions left uninvoked.
C3_Witness ==
    /\ fInput = TestTreeNoCut
    /\ fPc = "done"
    /\ fResult = [ok |-> TRUE, err |-> NoErr]
    /\ fLog = <<<<1>>, <<2>>, <<2, 1>>, <<2, 2>>, <<2, 2, 1>>, <<2, 2, 2>>>>

\* The iterations, invocations and NextFunc calls that may follow a
\* cancellation: those of the iteration that was past its check of ctx.
InFlight == IF fSeen.pc = "body" THEN 1 ELSE 0

\* C4: after the cancellation no iteration starts: the one that finds ctx
\* done at its start returns (false, ctx.Err()) and invokes nothing, so that
\* at most the iteration already past its check runs to its end.
C4_CancelStopsForce ==
    /\ [](fCancelled =>
            /\ fIter <= fSeen.iter + InFlight
            /\ Len(fLog) <= Len(fSeen.log) + InFlight
            /\ fNext <= fSeen.next + InFlight)
    /\ [][fCancelled /\ fPc = "poll" /\ fStack # <<>> =>
            /\ fPc' = "done"
            /\ fResult' = [ok |-> FALSE, err |-> Canceled]
            /\ fLog' = fLog
            /\ fNext' = fNext]_vars

\* An endless repeat, cancelled after three invocations, has ended.
C4_Witness ==
    /\ fInput = TRepeat(TFalse)
    /\ fCancelled
    /\ Len(fSeen.log) = 3
    /\ fPc = "done"
    /\ fResult = [ok |-> FALSE, err |-> Canceled]
    /\ Len(fLog) = 3

\* What the recovering function of promise p does with err.
Offer(h, p, err) == CallRecover(h, h[p].recover, err)

Accepts(h, p, err) ==
    /\ h[p].recover # NoRecover
    /\ ~Offer(h, p, err).panic
    /\ Offer(h, p, err).p # NilP

\* The innermost promise of the stack s that accepts err: its index, or 0.
Handler(h, s, err) ==
    LET is == {i \in 1..Len(s) : Accepts(h, s[i], err)}
    IN  IF is = {} THEN 0 ELSE CHOOSE i \in is : \A j \in is : j <= i

\* C5: when no recovering function panics, an error goes to the innermost
\* catch whose recovering function returns a promise: the search goes on
\* with that promise in place of the catch and of everything above it; when
\* there is none, Force returns (false, err) with that error.
C5_ErrorGoesToInnermostHandler ==
    fRec.made /\ ~fRec.panic =>
        LET i == Handler(fRec.h, fRec.before, fRec.err)
        IN  IF i = 0
            THEN /\ fRec.left = fRec.err
                 /\ fPc = "done"
                 /\ fResult = [ok |-> FALSE, err |-> fRec.err]
            ELSE /\ fRec.left = NoErr
                 /\ fRec.after = Append(SubSeq(fRec.before, 1, i - 1),
                                        Offer(fRec.h, fRec.before[i], fRec.err).p)

\* The inner catch returned nil and the outer one took the error.
C5_Witness ==
    /\ fRec.made
    /\ Handler(fRec.h, fRec.before, fRec.err) > 0
    /\ \E j \in 1..Len(fRec.before) :
          /\ j > Handler(fRec.h, fRec.before, fRec.err)
          /\ fRec.h[fRec.before[j]].recover # NoRecover
    /\ fPc = "done"
    /\ fResult.ok

\* C6: Force never ends in a panic of the code it calls.
C6_NoPanicLeavesForce == fPc # "panicked"

\* A recovering function has panicked and Force with it.
C6_Witness ==
    /\ fPc = "panicked"
    /\ fRec.panic
    /\ fResult.err = GoValue("recover")

(***************************************************************************)
(* What the unification claims are stated with: the term a term stands for *)
(* under an environment, acyclicity, and unifiers drawn from a finite set  *)
(* of ground terms.  None of it is used by the model of the code.          *)
(***************************************************************************)
RECURSIVE NormFloat(_)
NormFloat(x) ==
    IF x.coef # 0 /\ x.coef % 10 = 0
    THEN NormFloat(Float(x.coef \div 10, x.exp + 1))
    ELSE x

Deep == NewAtom("...")

\* t with every bound variable replaced by what it stands for, cut at depth d.
RECURSIVE Deref(_, _, _)
Deref(e, t, d) ==
    LET r == Resolve(e, t)
    IN  IF IsCompound(r)
        THEN IF d = 0 THEN Deep
             ELSE Cmp(r.f, [i \in 1..Len(r.args) |-> Deref(e, r.args[i], d - 1)])
        ELSE IF r.t = "float" THEN NormFloat(r)
        ELSE r

RECURSIVE VarsIn(_)
VarsIn(t) ==
    IF IsVar(t) THEN {t.v}
    ELSE IF IsCompound(t) THEN UNION {VarsIn(t.args[i]) : i \in 1..Len(t.args)}
    ELSE {}

BoundTo(e, v) == LET ref == lookup(e, v) IN IF ref.ok THEN VarsIn(ref.t) ELSE {}

RECURSIVE ReachVars(_, _, _)
ReachVars(e, vs, n) ==
    IF n = 0 THEN vs
    ELSE ReachVars(e, vs \cup UNION {BoundTo(e, v) : v \in vs}, n - 1)

\* No variable is bound, through any chain of bindings, to a term holding it.
Acyclic(e) ==
    \A v \in UVariables : v \notin ReachVars(e, BoundTo(e, v), Cardinality(UVariables))

\* Deep enough for every acyclic term of the model, see FullIsExact.
FullDepth == 6

Full(e, t) == Deref(e, t, FullDepth)

RECURSIVE HasDeep(_)
HasDeep(t) ==
    IF IsCompound(t) THEN \E i \in 1..Len(t.args) : HasDeep(t.args[i]) ELSE t = Deep

\* The depth limits lose nothing on acyclic environments: no term is cut, and
\* with occurs check (no cycle can arise) no unification is reported as diverged.
FullIsExact ==
    uCall.made =>
        /\ Acyclic(uEnv) /\ uCall.oc => ~uCall.xy.div /\ ~uCall.yx.div
        /\ \A e \in {uEnv, uCall.xy.env, uCall.yx.env} :
              Acyclic(e) => \A v \in UVariables : ~HasDeep(Full(e, Variable(v)))

\* The least variable that stands for the same unbound variable as u.
Representative(e, u) ==
    CHOOSE w \in UVariables :
        /\ Resolve(e, Variable(w)) = Variable(u)
        /\ \A w2 \in UVariables : Resolve(e, Variable(w2)) = Variable(u) => w <= w2

RECURSIVE Rename(_, _)
Rename(e, t) ==
    IF IsVar(t) THEN Variable(Representative(e, t.v))
    ELSE IF IsCompound(t) THEN Cmp(t.f, [i \in 1..Len(t.args) |-> Rename(e, t.args[i])])
    ELSE t

\* Full(e, t) with each unbound variable named by its representative: equal
\* in two environments that differ only in the direction of variable-to-
\* variable bindings.
Canon(e, t) == Rename(e, Full(e, t))

Ground == {a, b, Integer(1), Float(1, 0), f(a), f(b), f(f(a)), g(a, a), g(a, f(a)), g(f(a), f(a))}

RECURSIVE Subst(_, _)
Subst(sigma, t) ==
    IF IsVar(t) THEN sigma[t.v]
    ELSE IF IsCompound(t) THEN Cmp(t.f, [i \in 1..Len(t.args) |-> Subst(sigma, t.args[i])])
    ELSE t

\* x and y, as they stand under e, have a unifier with values in Ground.
HasGroundUnifier(e, x, y) ==
    LET fx == Full(e, x)
        fy == Full(e, y)
        vs == VarsIn(fx) \cup VarsIn(fy)
    IN  \E sigma \in [vs -> Ground] : Subst(sigma, fx) = Subst(sigma, fy)

\* The top of the two terms cannot be made equal: functor or arity mismatch,
\* different atomic values, atomic against compound.
Clash(e, x, y) ==
    LET rx == Resolve(e, x)
        ry == Resolve(e, y)
    IN  /\ ~IsVar(rx)
        /\ ~IsVar(ry)
        /\ IF IsCompound(rx) /\ IsCompound(ry)
           THEN rx.f # ry.f \/ Len(rx.args) # Len(ry.args)
           ELSE IF IsCompound(rx) \/ IsCompound(ry) THEN TRUE
           ELSE Full(e, rx) # Full(e, ry)

\* C8: unify(x, y) and unify(y, x) end alike (both succeed, both fail, or
\* neither returns), with and without occurs check; on success x and y stand
\* for the same term under each resulting environment, and the two
\* environments give every variable the same term up to which of two unbound
\* variables was bound to the other.
C8_UnifySymmetric ==
    uCall.made =>
        /\ uCall.xy.div = uCall.yx.div
        /\ uCall.xy.ok = uCall.yx.ok
        /\ uCall.xy.ok =>
              /\ Full(uCall.xy.env, uCall.x) = Full(uCall.xy.env, uCall.y)
              /\ Full(uCall.yx.env, uCall.x) = Full(uCall.yx.env, uCall.y)
              /\ \A v \in UVariables :
                    Canon(uCall.xy.env, Variable(v)) = Canon(uCall.yx.env, Variable(v))

\* Two unbound variables were unified, and the two orders bound different ones.
C8_Witness ==
    /\ uCall.made
    /\ uCall.xy.ok
    /\ uCall.oc
    /\ uSetup > 0
    /\ IsCompound(uCall.x)
    /\ uCall.xy.env # uCall.yx.env
    /\ \E v \in UVariables :
          lookup(uCall.xy.env, v).ok /\ ~lookup(uCall.yx.env, v).ok

\* The call is an unbound variable against a compound term that holds it,
\* directly or through the bindings of other variables.
OccursCase ==
    /\ uCall.made
    /\ Acyclic(uEnv)
    /\ LET rx == Resolve(uEnv, uCall.x)
           ry == Resolve(uEnv, uCall.y)
       IN  /\ IsVar(rx)
           /\ IsCompound(ry)
           /\ rx.v \in VarsIn(Full(uEnv, ry))

\* C9: with occurs check, unifying an unbound variable with a compound term
\* that holds it fails and returns the environment it was given; without
\* occurs check it succeeds and the variable is bound to that term, every
\* other variable keeping its binding.
C9_OccursCheck ==
    OccursCase =>
        LET rx == Resolve(uEnv, uCall.x)
            ry == Resolve(uEnv, uCall.y)
        IN  /\ ~uCall.xy.div
            /\ uCall.oc => ~uCall.xy.ok /\ uCall.xy.env = uEnv
            /\ ~uCall.oc =>
                  /\ uCall.xy.ok
                  /\ lookup(uCall.xy.env, rx.v) = Found(ry)
                  /\ \A v \in (UVariables \cup {varContext}) \ {rx.v} :
                        lookup(uCall.xy.env, v) = lookup(uEnv, v)

\* With occurs check: the variable is held only through another variable's binding.
C9_WitnessOn ==
    /\ OccursCase
    /\ uCall.oc
    /\ ~uCall.xy.ok
    /\ Resolve(uEnv, uCall.x).v \notin VarsIn(Resolve(uEnv, uCall.y))

\* Without occurs check: the variable is bound to the term that holds it.
C9_WitnessOff ==
    /\ OccursCase
    /\ ~uCall.oc
    /\ uCall.xy.ok
    /\ ~Acyclic(uCall.xy.env)

\* The call is over acyclic terms: the environment it starts from is acyclic
\* and so is the one it returns.
AcyclicCase ==
    /\ uCall.made
    /\ Acyclic(uEnv)
    /\ uCall.xy.ok => Acyclic(uCall.xy.env)

\* C10: over acyclic terms, a successful unify returns an environment under
\* which x and y are the same term and which keeps every binding it was
\* given; unify succeeds whenever the two terms have a unifier (with values
\* in Ground), unless the only unifiers are cyclic ones; it fails on a
\* functor or arity mismatch, on different atomic values, and on atomic
\* against compound.
C10_UnifyFindsUnifier ==
    AcyclicCase =>
        /\ uCall.xy.ok =>
              /\ Full(uCall.xy.env, uCall.x) = Full(uCall.xy.env, uCall.y)
              /\ \A v \in UVariables \cup {varContext} :
                    lookup(uEnv, v).ok => lookup(uCall.xy.env, v) = lookup(uEnv, v)
        /\ Clash(uEnv, uCall.x, uCall.y) => ~uCall.xy.ok
        /\ ~uCall.xy.ok => ~HasGroundUnifier(uEnv, uCall.x, uCall.y)

\* A success that had to bind through an earlier binding, and a failure on a
\* clash below the top.
C10_WitnessOk ==
    /\ AcyclicCase
    /\ uSetup > 0
    /\ uCall.xy.ok
    /\ uCall.xy.env # uEnv
    /\ IsCompound(uCall.x)
    /\ IsCompound(uCall.y)
    /\ uCall.x # uCall.y

C10_WitnessFail ==
    /\ AcyclicCase
    /\ ~uCall.xy.ok
    /\ ~Clash(uEnv, uCall.x, uCall.y)
    /\ IsCompound(uCall.x)

(***************************************************************************)
(* SpecDB: database built-ins called one after the other on an engine      *)
(* that holds a static procedure s/1 and the built-in true/0, and the same *)
(* calls made on a second engine that started in the same state.  Between  *)
(* two solutions of a retract the other built-ins may be called, as the    *)
(* continuation of the retract does.                                       *)
(***************************************************************************)
MaxAsserts == 1

MaxFuel == 2

VarX == Variable(2)

fOf(arg) == Cmp("f", <<arg>>)

AssertTerms ==
    {fOf(NewAtom("c")), Cmp("g", <<NewAtom("a")>>), Cmp("s", <<NewAtom("b")>>),
     atomTrue, Rule(fOf(NewAtom("a")), Integer(1)), VarX}

RetractTerms ==
    {fOf(VarX), fOf(NewAtom("b")), Cmp("s", <<VarX>>), atomTrue, Cmp("h", <<VarX>>), VarX}

AbolishTerms ==
    {piTerm(<<"f", 1>>), piTerm(<<"s", 1>>), piTerm(<<"true", 0>>),
     piTerm(<<"h", 1>>), VarX, NewAtom("f")}

CurrentPredicateTerms == {VarX, NewAtom("f")}

CallGoals ==
    {fOf(VarX), fOf(NewAtom("b")), Cmp("g", <<VarX>>), Cmp("h", <<VarX>>)}

\* The database before the first call: s/1 is static, true/0 is built in and
\* f/1 has the clauses f(a) and f(b) :- true.
Database0 ==
    (<<"s", 1>> :> Static(compileDb(Cmp("s", <<NewAtom("a")>>), NewEnv, 1).cs))
    @@ (<<"true", 0>> :> Builtin(compileDb(atomTrue, NewEnv, 2).cs))
    @@ (<<"f", 1>> :> Clauses(compileDb(fOf(NewAtom("a")), NewEnv, 3).cs
                              \o compileDb(Rule(fOf(NewAtom("b")), atomTrue), NewEnv, 4).cs))

Order0 == <<<<"s", 1>>, <<"true", 0>>, <<"f", 1>>>>

\* The id of the first clause that is asserted.
FirstId == Len(Order0) + 2

\* The indicators in the order in which they were first stored: those that
\* are still there, then the new one.
OrderAfter(order, procs) ==
    SelectSeq(order, LAMBDA key : key \in DOMAIN procs)
    \o (IF \E key \in DOMAIN procs : \A i \in 1..Len(order) : order[i] # key
        THEN <<CHOOSE key \in DOMAIN procs : \A i \in 1..Len(order) : order[i] # key>>
        ELSE <<>>)

NoRemoved == [id |-> 0, deleted |-> 0, asserted |-> FALSE]

Outcome(r, st, stream) ==
    [procs |-> r.procs, st |-> st, res |-> r.res, err |-> r.err,
     sols |-> stream.sols, end |-> stream.err, removed |-> NoRemoved]

\* What was called, what it returned and what the database was before.
DbStep(op, t, mine, twin) ==
    /\ procedures' = mine.procs
    /\ dbRetract' = mine.st
    /\ dbOrder' = OrderAfter(dbOrder, mine.procs)
    /\ dbLast' = [op |-> op, t |-> t, res |-> mine.res, err |-> mine.err,
                  sols |-> mine.sols, end |-> mine.end, before |-> procedures,
                  removed |-> mine.removed]
    /\ dbTwin' = twin

forceRest == <<fHeap, fStack, fPc, fResult, fCancelled, fInput, fLog, fNext, fIter,
               fSeen, fBase, fCut, fRec>>

\* A retract in progress saw an assert to its procedure.
Touched(st, r, before) ==
    IF st.active /\ r.res = "k" /\ st.pi \in DOMAIN r.procs
       /\ (st.pi \notin DOMAIN before \/ r.procs[st.pi] # before[st.pi])
    THEN [st EXCEPT !.asserted = TRUE]
    ELSE st

AssertOutcome(r, st, before) == Outcome(r, Touched(st, r, before), NoSolutions)

DoAssertz ==
    /\ dbNextId < FirstId + MaxAsserts
    /\ \E t \in AssertTerms :
          DbStep("assertz", t,
                 AssertOutcome(Assertz(procedures, t, NewEnv, dbNextId), dbRetract,
                               procedures),
                 AssertOutcome(Assertz(dbTwin.procs, t, NewEnv, dbNextId), dbTwin.st,
                               dbTwin.procs))
    /\ dbNextId' = dbNextId + 1
    /\ UNCHANGED <<envVars, unifyVars, forceRest, varVars, cmpVars, moreVars>>

DoAsserta ==
    /\ dbNextId < FirstId + MaxAsserts
    /\ \E t \in AssertTerms :
          DbStep("asserta", t,
                 AssertOutcome(Asserta(procedures, t, NewEnv, dbNextId), dbRetract,
                               procedures),
                 AssertOutcome(Asserta(dbTwin.procs, t, NewEnv, dbNextId), dbTwin.st,
                               dbTwin.procs))
    /\ dbNextId' = dbNextId + 1
    /\ UNCHANGED <<envVars, unifyVars, forceRest, varVars, cmpVars, moreVars>>

\* The clause that the solution q of a retract removed.
Removed(q) ==
    IF q.r.res = "k"
    THEN [id |-> q.st.ids[q.st.next - 1], deleted |-> q.st.deleted - 1,
          asserted |-> q.st.asserted]
    ELSE NoRemoved

\* The closures of a retract that has no more of them to invoke are gone.
RetractOutcome(q) ==
    [Outcome(q.r,
             IF q.st.active /\ q.st.next > Len(q.st.raws) THEN NoRetract ELSE q.st,
             NoSolutions)
     EXCEPT !.removed = Removed(q)]

\* Force on the promise of a retract: it invokes the closures one after the
\* other until one of them calls the continuation or none is left.
RECURSIVE retractForce(_, _)
RECURSIVE retractNext(_, _)
retractNext(procs, q) ==
    IF q.r.res = "k" THEN q ELSE retractForce(procs, q.st)

retractForce(procs, st) ==
    IF st.next > Len(st.raws)
    THEN RetractResult(DbFalse(procs), st)
    ELSE retractNext(procs, retractK(procs, st, st.next))

retractFirst(q) ==
    IF ~q.st.active
    THEN RetractOutcome(q)
    ELSE RetractOutcome(retractForce(q.r.procs, q.st))

\* retract(T) is called and forced to its first solution; a retract still
\* in progress is given up.
DoRetract ==
    /\ \E t \in RetractTerms :
          DbStep("retract", t,
                 retractFirst(Retract(procedures, t, NewEnv)),
                 retractFirst(Retract(dbTwin.procs, t, NewEnv)))
    /\ UNCHANGED dbNextId
    /\ UNCHANGED <<envVars, unifyVars, forceRest, varVars, cmpVars, moreVars>>

\* Backtracking into the retract in progress, up to its next solution.
DoRetractNext ==
    /\ dbRetract.active
    /\ DbStep("redo", dbRetract.t,
              RetractOutcome(retractForce(procedures, dbRetract)),
              RetractOutcome(retractForce(dbTwin.procs, dbTwin.st)))
    /\ UNCHANGED dbNextId
    /\ UNCHANGED <<envVars, unifyVars, forceRest, varVars, cmpVars, moreVars>>

AbolishOutcome(r, st) ==
    Outcome(r, IF st.active /\ r.res = "k" /\ st.pi \notin DOMAIN r.procs
               THEN [st EXCEPT !.asserted = TRUE] ELSE st,
            NoSolutions)

DoAbolish ==
    /\ \E pi \in AbolishTerms :
          DbStep("abolish", pi,
                 AbolishOutcome(Abolish(procedures, pi, NewEnv), dbRetract),
                 AbolishOutcome(Abolish(dbTwin.procs, pi, NewEnv), dbTwin.st))
    /\ UNCHANGED dbNextId
    /\ UNCHANGED <<envVars, unifyVars, forceRest, varVars, cmpVars, moreVars>>

StreamOutcome(procs, st, stream) ==
    Outcome(IF stream.err # NoErr THEN DbError(stream.err, procs) ELSE DbDelay(procs),
            st, stream)

\* current_predicate(Pi) forced until it has no more solutions; each engine
\* ranges over its map in an order of its own.
DoCurrentPredicate ==
    /\ \E pi \in CurrentPredicateTerms,
          order \in RangeOrders(UserDefined(procedures)),
          order2 \in RangeOrders(UserDefined(dbTwin.procs)) :
          DbStep("current_predicate", pi,
                 StreamOutcome(procedures, dbRetract,
                               CurrentPredicate(procedures, pi, order, NewEnv)),
                 StreamOutcome(dbTwin.procs, dbTwin.st,
                               CurrentPredicate(dbTwin.procs, pi, order2, NewEnv)))
    /\ UNCHANGED dbNextId
    /\ UNCHANGED <<envVars, unifyVars, forceRest, varVars, cmpVars, moreVars>>

\* A solution as the caller sees it: the clause that gave it and the goal
\* under the bindings made.
Seen(stream, goal) ==
    [sols |-> [i \in 1..Len(stream.sols) |->
                  [id |-> stream.sols[i].id,
                   goal |-> Cmp(goal.f, <<Resolve(stream.sols[i].env, goal.args[1])>>)]],
     err |-> stream.err]

\* A goal is called and forced until it has no more solutions.
DoCall ==
    /\ \E goal \in CallGoals :
          DbStep("call", goal,
                 StreamOutcome(procedures, dbRetract,
                     Seen(arriveDb(procedures, goal.f, goal.args, NewEnv, MaxFuel), goal)),
                 StreamOutcome(dbTwin.procs, dbTwin.st,
                     Seen(arriveDb(dbTwin.procs, goal.f, goal.args, NewEnv, MaxFuel), goal)))
    /\ UNCHANGED dbNextId
    /\ UNCHANGED <<envVars, unifyVars, forceRest, varVars, cmpVars, moreVars>>

InitDB ==
    /\ EnvIdle
    /\ UnifyIdle
    /\ ForceRestIdle
    /\ VarsIdle
    /\ CmpIdle
    /\ MoreIdle
    /\ procedures = Database0
    /\ dbOrder = Order0
    /\ dbRetract = NoRetract
    /\ dbLast = NoOp
    /\ dbTwin = Outcome(DbOk(Database0), NoRetract, NoSolutions)
    /\ dbNextId = FirstId

NextDB ==
    \/ DoAssertz
    \/ DoAsserta
    \/ DoRetract
    \/ DoRetractNext
    \/ DoAbolish
    \/ DoCurrentPredicate
    \/ DoCall

SpecDB == InitDB /\ [][NextDB]_vars

(***************************************************************************)
(* SpecVars: variables are created on one engine, by any goroutine, with   *)
(* SetMaxVariables and ResetEnv called in between.                         *)
(***************************************************************************)
MaxIssued == 5

MaxCap == 2

\* What a call of NewVariable met and what it returned.
Created(r, before) ==
    [op |-> "NewVariable", v |-> r.v, refused |-> r.refused,
     created |-> Len(before), count |-> varCounter, max |-> maxVariables.max]

DoNewVariable ==
    /\ Len(varIssued) < MaxIssued
    /\ varCounter' = NewVariable(varCounter).counter
    /\ varIssued' = Append(varIssued, NewVariable(varCounter).v)
    /\ varLast' = Created(NewVariable(varCounter), varIssued)
    /\ UNCHANGED maxVariables
    /\ UNCHANGED <<envVars, unifyVars, forceVars, dbVars, cmpVars, moreVars>>

DoSetMaxVariables ==
    /\ \E n \in 0..MaxCap :
          /\ maxVariables' = SetMaxVariables(n)
          /\ varLast' = [op |-> "SetMaxVariables", n |-> n]
    /\ UNCHANGED <<varCounter, varIssued>>
    /\ UNCHANGED <<envVars, unifyVars, forceVars, dbVars, cmpVars, moreVars>>

DoResetEnv ==
    /\ Len(varIssued) < MaxIssued
    /\ varCounter' = ResetEnv(maxVariables.vmMax).made.counter
    /\ varIssued' = Append(varIssued, ResetEnv(maxVariables.vmMax).context)
    /\ maxVariables' = [maxVariables EXCEPT !.max = ResetEnv(maxVariables.vmMax).max]
    /\ varLast' = [op |-> "ResetEnv", v |-> ResetEnv(maxVariables.vmMax).context]
    /\ UNCHANGED <<envVars, unifyVars, forceVars, dbVars, cmpVars, moreVars>>

InitVars == EnvIdle /\ UnifyIdle /\ ForceIdle /\ LaterIdle

NextVars == DoNewVariable \/ DoSetMaxVariables \/ DoResetEnv

SpecVars == InitVars /\ [][NextVars]_vars

(***************************************************************************)
(* SpecCompare: variables are bound, then three terms are compared with    *)
(* one another under the environment.                                      *)
(***************************************************************************)
MaxCmpBinds == 1

CmpVariables == {2, 3}

CmpValues == {Float(1, 0), Variable(3), Cmp("f", <<NewAtom("a")>>)}

CompareTerms ==
    {Variable(2), Variable(3), Float(1, 0), Float(10, -1), Float(15, -1),
     Integer(1), Integer(2), NewAtom("a"), NewAtom("b"),
     Custom("p.S", 1), Custom("p.S", 2), Custom("p.T", 1),
     Cmp("f", <<NewAtom("a")>>), Cmp("f", <<Variable(2)>>),
     Cmp("g", <<Integer(1)>>), Cmp("f", <<NewAtom("a"), NewAtom("a")>>)}

CompareBind ==
    /\ ~cmpLast.made
    /\ cmpSetup < MaxCmpBinds
    /\ \E v \in CmpVariables, t \in CmpValues :
          cmpEnv' = bind(cmpEnv, v, t)
    /\ cmpSetup' = cmpSetup + 1
    /\ UNCHANGED cmpLast
    /\ UNCHANGED <<envVars, unifyVars, forceVars, dbVars, varVars, moreVars>>

Compared(s, t, u, env) ==
    [made |-> TRUE, s |-> s, t |-> t, u |-> u,
     rs |-> Resolve(env, s), rt |-> Resolve(env, t),
     ss |-> TermCompare(s, s, env),
     st |-> TermCompare(s, t, env), ts |-> TermCompare(t, s, env),
     tu |-> TermCompare(t, u, env), su |-> TermCompare(s, u, env)]

DoCompare ==
    /\ ~cmpLast.made
    /\ \E s, t, u \in CompareTerms : cmpLast' = Compared(s, t, u, cmpEnv)
    /\ UNCHANGED <<cmpEnv, cmpSetup>>
    /\ UNCHANGED <<envVars, unifyVars, forceVars, dbVars, varVars, moreVars>>

InitCompare == EnvIdle /\ UnifyIdle /\ ForceIdle /\ LaterIdle

NextCompare == CompareBind \/ DoCompare

SpecCompare == InitCompare /\ [][NextCompare]_vars

(***************************************************************************)
(* SpecAgain: Force is called on the same promise again and again, each    *)
(* call after the one before has returned, with one context.               *)
(***************************************************************************)
MaxForces == 4

MaxSeq == 4

\* The children of TestPromise_ForceWithDelayedSequenceExecutions: the v-th
\* yields Bool(v % ((v % 4) + 1) == 0).
SeqChild(v) == [k |-> "Bool", ok |-> v % ((v % 4) + 1) = 0]

TestSeq == TDelay([i \in 1..(MaxSeq + 2) |-> SeqChild(i - 1)])

BoolSeqs == UNION {[1..n -> {TTrue, TFalse}] : n \in 0..MaxSeq}

\* The tree's functions are its own: no recovering function calls the VM,
\* whose closures are logged under the labels of the VM's clauses.
RECURSIVE OwnFunctions(_)
OwnFunctions(t) ==
    /\ t.k = "catch" => t.rec.rf # "Catch"
    /\ t.k \in {"Delay", "cut", "repeat", "catch"} =>
          \A i \in 1..Len(t.c) : OwnFunctions(t.c[i])

AgainTrees ==
    {TDelay(c) : c \in BoolSeqs}
    \cup {t \in UNION {TreesOfSize(n) : n \in 1..MaxNodes} :
              t.k = "Delay" /\ OwnFunctions(t)}
    \cup {TestSeq}

\* The promise Force is called on.
RootPromise == NodePromise(PromiseHeap0, fInput, <<>>, 0).p

\* The functions the NextFunc of the forced promise has yielded.
RootDrawn(log) == SelectSeq(log, LAMBDA l : Len(l) = 1)

\* What a Force that returned leaves to the next one.
Returned ==
    [ok |-> fResult.ok, err |-> fResult.err, drawn |-> Len(RootDrawn(fLog)),
     next |-> fNext, ended |-> fHeap[RootPromise].delayed = NoFunc]

\* ok, err := k.Force(ctx), once more.
ForceAgain ==
    /\ fPc = "done"
    /\ Len(rfRuns) < MaxForces
    /\ rfRuns' = Append(rfRuns, Returned)
    /\ fStack' = <<RootPromise>>
    /\ fPc' = "poll"
    /\ fResult' = NoResult
    /\ fIter' = 0
    /\ fBase' = (RootPromise :> Pushed(fHeap, RootPromise, <<>>))
    /\ UNCHANGED <<procedures, fHeap, fCancelled, fInput, fLog, fNext, fSeen,
                   fCut, fRec>>
    /\ UNCHANGED <<earlierVars, arithVars, hookVars, pureVars>>

InitAgain ==
    /\ EnvIdle
    /\ LaterIdle
    /\ UnifyIdle
    /\ procedures = <<>>
    /\ fInput \in AgainTrees
    /\ ForceStart(NodePromise(PromiseHeap0, fInput, <<>>, 0).h, RootPromise)

NextAgain == ForcePoll \/ ForceBodyBounded \/ Cancel \/ ForceAgain

SpecAgain == InitAgain /\ [][NextAgain]_vars

(***************************************************************************)
(* SpecArith: one of +, - and * is applied to two evaluated operands.      *)
(***************************************************************************)
ArithOps == {"+", "-", "*"}

ArithTerms ==
    {Integer(i) : i \in MinInt..MaxInt}
    \cup {Float(2, 0), Float(-3, 0), NewAtom("a"), Variable(2)}

DoEval ==
    /\ ~arLast.made
    /\ \E op \in ArithOps, x \in ArithTerms, y \in ArithTerms :
          arLast' = [made |-> TRUE, op |-> op, x |-> x, y |-> y,
                     res |-> binaryNumber(op, x, y, NewEnv)]
    /\ UNCHANGED <<earlierVars, forceVars, againVars, hookVars, pureVars>>

InitArith == EnvIdle /\ UnifyIdle /\ ForceIdle /\ LaterIdle

NextArith == DoEval

SpecArith == InitArith /\ [][NextArith]_vars

(***************************************************************************)
(* SpecHook: Force on the promise of a query while a hook is installed;    *)
(* InstallHook and ClearHook are called between two iterations of Force    *)
(* (by the host or by a predicate).                                        *)
(***************************************************************************)
MaxHookOps == 1

GasError == GoError("out of gas")

GasException == Exception(NewAtom("gas"))

HookNever == HookFunc("none", "", NoErr)

Hooks ==
    {CompositeHook(<<HookNever>>),
     CompositeHook(<<HookFunc("Call", "t", GasError)>>),
     CompositeHook(<<HookFunc("Call", "q", GasException)>>),
     CompositeHook(<<HookFunc("Cut", "", GasException)>>),
     CompositeHook(<<HookNever, HookFunc("Exit", "", GasError)>>)}

HookBodies == UNION {BodiesOfLen(n) : n \in 1..(MaxBody - 1)}

\* The promise Force pops in this iteration.
TopPromise == pop(fStack).p

\* The hook calls and the instructions of the promise function that this
\* iteration of Force invokes.
StepTrace ==
    IF fHeap[TopPromise].delayed = NoFunc
    THEN <<>>
    ELSE child([fHeap EXCEPT ![TopPromise].cutParent = NilP], TopPromise, fLog).trace

\* The last promise function ended with an error of the hook.
HookFailed ==
    /\ hkRuns # <<>>
    /\ hkRuns[Len(hkRuns)][Len(hkRuns[Len(hkRuns)])].ev = "hook"
    /\ hkRuns[Len(hkRuns)][Len(hkRuns[Len(hkRuns)])].err # NoErr

\* This iteration pops the error promise of the hook and a catch recovers it.
StepRecovers ==
    /\ HookFailed
    /\ fHeap[TopPromise].delayed = NoFunc
    /\ fHeap[TopPromise].err = hkRuns[Len(hkRuns)][Len(hkRuns[Len(hkRuns)])].err
    /\ ~recover(fHeap, pop(fStack).s, fHeap[TopPromise].err).panic
    /\ recover(fHeap, pop(fStack).s, fHeap[TopPromise].err).err = NoErr

HookForceBody ==
    /\ ForceBodyStep
    /\ hkRuns' = IF StepTrace = <<>> THEN hkRuns ELSE Append(hkRuns, StepTrace)
    /\ hkCaught' = IF StepRecovers THEN hkCaught \cup {Len(hkRuns)} ELSE hkCaught
    /\ UNCHANGED <<vmHook, hkMark, hkOps>>
    /\ UNCHANGED <<earlierVars, againVars, arithVars, pureVars>>

\* vm.hook = f
InstallHook ==
    /\ fPc = "poll"
    /\ hkOps < MaxHookOps
    /\ \E hook \in Hooks : vmHook' = hook
    /\ hkMark' = Len(hkRuns)
    /\ hkOps' = hkOps + 1
    /\ UNCHANGED <<hkRuns, hkCaught>>
    /\ UNCHANGED <<earlierVars, forceVars, againVars, arithVars, pureVars>>

\* vm.hook = nil
ClearHook ==
    /\ fPc = "poll"
    /\ hkOps < MaxHookOps
    /\ vmHook' = NoHook
    /\ hkMark' = Len(hkRuns)
    /\ hkOps' = hkOps + 1
    /\ UNCHANGED <<hkRuns, hkCaught>>
    /\ UNCHANGED <<earlierVars, forceVars, againVars, arithVars, pureVars>>

InitHook ==
    /\ EnvIdle
    /\ UnifyIdle
    /\ DbIdle /\ VarsIdle /\ CmpIdle /\ AgainIdle /\ ArithIdle /\ PureIdle
    /\ vmHook \in Hooks \cup {NoHook}
    /\ hkRuns = <<>>
    /\ hkMark = 0
    /\ hkOps = 0
    /\ hkCaught = {}
    /\ fInput \in [query : Queries, body : HookBodies]
    /\ procedures = Database(fInput.body)
    /\ ForceStart(Call(PromiseHeap0, fInput.query, Success, NewEnv).h,
                  Call(PromiseHeap0, fInput.query, Success, NewEnv).p)

NextHook == ForcePoll \/ HookForceBody \/ InstallHook \/ ClearHook

SpecHook == InitHook /\ [][NextHook]_vars

(***************************************************************************)
(* SpecNative: Register<n> of a native predicate, then its call method     *)
(* with some list of arguments.                                            *)
(***************************************************************************)
MaxArgs == 9

ArgTerms == {NewAtom("a"), NewAtom("b")}

ArgLists == UNION {[1..n -> ArgTerms] : n \in 0..MaxArgs}

DoPredicateCall ==
    /\ ~ntLast.made
    /\ \E n \in 0..MaxArity : \E args \in ArgLists :
          ntLast' = [made |-> TRUE, arity |-> n, args |-> args,
                     got |-> predicateCall(n, args)]
    /\ UNCHANGED <<vmUnknown, ukLast, coLast, dictVars, lastVars, stackVars>>

InitNative ==
    /\ EnvIdle
    /\ UnifyIdle
    /\ ForceIdle
    /\ LaterIdle

NextNative == DoPredicateCall

SpecNative == InitNative /\ [][NextNative]_vars

(***************************************************************************)
(* SpecArrive: the flag unknown is set, then Arrive is called once.        *)
(***************************************************************************)
UnknownActions == {"error", "fail", "warning"}

ArriveNames == {"q", "p", "nope", "u", "call"}

MaxArriveArgs == 2

ArriveArgs == UNION {[1..n -> ArgTerms] : n \in 0..MaxArriveArgs}

\* Success, and the rest of a clause body.
ArriveConts ==
    {Success,
     [k |-> "exec", pc |-> <<OpExit>>, cont |-> Success, cutParent |-> NilP]}

\* set_prolog_flag(unknown, value)
SetUnknown ==
    /\ ~ukLast.made
    /\ \E value \in UnknownActions : vmUnknown' = value
    /\ UNCHANGED <<ukLast, ntLast, coLast, dictVars, lastVars, stackVars>>

DoArrive ==
    /\ ~ukLast.made
    /\ \E name \in ArriveNames : \E args \in ArriveArgs : \E k \in ArriveConts :
          ukLast' = [made |-> TRUE, name |-> name, args |-> args, k |-> k,
                     got |-> Arrive(PromiseHeap0, name, args, k, NewEnv)]
    /\ UNCHANGED <<vmUnknown, ntLast, coLast, dictVars, lastVars, stackVars>>

InitArrive ==
    /\ EnvIdle
    /\ UnifyIdle
    /\ LaterIdle
    /\ fInput \in BodiesOfLen(1)
    /\ procedures = Database(fInput)
    /\ fHeap = PromiseHeap0
    /\ fStack = <<>>
    /\ fPc = "idle"
    /\ fResult = NoResult
    /\ fCancelled = FALSE
    /\ fLog = <<>>
    /\ fNext = 0
    /\ fIter = 0
    /\ fSeen = NoCancel
    /\ fBase = <<>>
    /\ fCut = NoCut
    /\ fRec = NoRecovery

NextArrive == SetUnknown \/ DoArrive

SpecArrive == InitArrive /\ [][NextArrive]_vars

(***************************************************************************)
(* findall/3 and bagof/3 (builtin.go), over the solutions of the goal in   *)
(* the order in which the inner Force reaches them.                        *)
(***************************************************************************)
atomEmptyList == NewAtom("[]")

\* List(ts...)
RECURSIVE List(_)
List(ts) == IF ts = <<>> THEN atomEmptyList ELSE Cmp(".", <<Head(ts), List(Tail(ts))>>)

\* name.Apply(args...): an atom when there are no arguments.
Apply(name, args) == IF args = <<>> THEN NewAtom(name) ELSE Cmp(name, args)

\* env.simplify(t), for the terms of an environment without cycles.
RECURSIVE simplify(_, _)
simplify(env, t) ==
    IF IsCompound(Resolve(env, t))
    THEN Cmp(Resolve(env, t).f,
             [i \in 1..Len(Resolve(env, t).args) |-> simplify(env, Resolve(env, t).args[i])])
    ELSE Resolve(env, t)

InSeq(x, s) == \E i \in 1..Len(s) : s[i] = x

\* env.appendFreeVariables(fvs, t)
RECURSIVE appendFreeVariables(_, _, _)
RECURSIVE appendFreeVariablesArgs(_, _, _, _)
appendFreeVariables(env, fvs, t) ==
    CASE IsVar(Resolve(env, t)) ->
            IF InSeq(Resolve(env, t), fvs) THEN fvs ELSE Append(fvs, Resolve(env, t))
      [] IsCompound(Resolve(env, t)) ->
            appendFreeVariablesArgs(env, fvs, Resolve(env, t).args, 1)
      [] OTHER -> fvs

appendFreeVariablesArgs(env, fvs, args, i) ==
    IF i > Len(args) THEN fvs
    ELSE appendFreeVariablesArgs(env, appendFreeVariables(env, fvs, args[i]), args, i + 1)

\* env.FreeVariables(ts...)
FreeVariables(env, ts) == appendFreeVariablesArgs(env, <<>>, ts, 1)

\* vs.Except(ws)
RECURSIVE Except(_, _)
Except(vs, ws) ==
    IF vs = <<>> THEN <<>>
    ELSE (IF InSeq(Head(vs), ws) THEN <<>> ELSE <<Head(vs)>>) \o Except(Tail(vs), ws)

\* Unify(x, y, k, env): k is called with the unifier, or the promise fails.
UnifyK(x, y, env) ==
    IF unify(env, x, y, FALSE, MaxDepth).ok
    THEN OneSolution(0, unify(env, x, y, FALSE, MaxDepth).env)
    ELSE NoSolutions

\* vm.Call(goal, k, env).Force(ctx) for a goal that is one call: the
\* environments with which k is called, and the error of Force.
goalResolved(procs, goal, env) ==
    CASE IsVar(goal) -> ErrorStream(InstantiationError)
      [] goal.t = "atom" -> arriveDb(procs, goal.a, <<>>, env, MaxFuel)
      [] IsCompound(goal) -> arriveDb(procs, goal.f, goal.args, env, MaxFuel)
      [] OTHER -> ErrorStream(typeErrorCallable(goal))

goalSolutions(procs, goal, env) == goalResolved(procs, Resolve(env, goal), env)

\* answers = append(answers, env.Simplify(template)) for each solution
collectAnswers(sols, template) ==
    [i \in 1..Len(sols) |-> simplify(sols[i].env, template)]

findAllUnify(s, template, instances, env) ==
    IF s.err # NoErr
    THEN ErrorStream(s.err)
    ELSE UnifyK(instances, List(collectAnswers(s.sols, template)), env)

\* VM.FindAll, forced: the calls of k and the error.
FindAll(procs, template, goal, instances, env) ==
    findAllUnify(goalSolutions(procs, goal, env), template, instances, env)

\* The loop of EachList in the continuation of the inner FindAll: the
\* answer joins the first solution with the same vars, or makes a new one.
RECURSIVE joinSolution(_, _, _, _)
joinSolution(solutions, i, answer, env) ==
    IF i > Len(solutions)
    THEN Append(solutions, [vars |-> answer.args[1], instances |-> <<answer.args[2]>>])
    ELSE IF TermCompare(solutions[i].vars, answer.args[1], env) = 0
    THEN [solutions EXCEPT ![i].instances = Append(solutions[i].instances, answer.args[2])]
    ELSE joinSolution(solutions, i + 1, answer, env)

RECURSIVE groupAnswers(_, _, _)
groupAnswers(solutions, answers, env) ==
    IF answers = <<>> THEN solutions
    ELSE groupAnswers(joinSolution(solutions, 1, Head(answers), env), Tail(answers), env)

\* sort.Slice(solutions, compare(vars_i, vars_j) < 0): the solutions have
\* pairwise different vars.
RECURSIVE insertSolution(_, _, _)
insertSolution(sorted, s, env) ==
    IF sorted = <<>> THEN <<s>>
    ELSE IF TermCompare(s.vars, Head(sorted).vars, env) < 0 THEN <<s>> \o sorted
    ELSE <<Head(sorted)>> \o insertSolution(Tail(sorted), s, env)

RECURSIVE sortSolutions(_, _)
sortSolutions(solutions, env) ==
    IF solutions = <<>> THEN <<>>
    ELSE insertSolution(sortSolutions(Tail(solutions), env), Head(solutions), env)

\* env = env.Bind(v, vars.Args[j]) for each grouping variable
RECURSIVE bindGrouping(_, _, _, _)
bindGrouping(env, gv, key, j) ==
    IF j > Len(gv) THEN env
    ELSE bindGrouping(bind(env, gv[j].v, key.args[j]), gv, key, j + 1)

\* ks[i]
bagK(s, gv, instances, env) ==
    IF IsCompound(s.vars)
    THEN UnifyK(instances, List(s.instances), bindGrouping(env, gv, s.vars, 1))
    ELSE UnifyK(instances, List(s.instances), env)

\* Delay(ks...), forced.
RECURSIVE bagKs(_, _, _, _)
bagKs(solutions, gv, instances, env) ==
    IF solutions = <<>> THEN NoSolutions
    ELSE Cat(bagK(Head(solutions), gv, instances, env),
             bagKs(Tail(solutions), gv, instances, env))

\* The promise function of collectionOf after the inner FindAll.
collectGrouped(s, gv, template, instances, env) ==
    IF s.err # NoErr
    THEN ErrorStream(s.err)
    ELSE bagKs(sortSolutions(
                   groupAnswers(<<>>,
                       collectAnswers(s.sols,
                           Cmp("-", <<Apply("vars", gv), template>>)), env), env),
               gv, instances, env)

\* A collectionOf that hands the empty list to k when there is no solution.
collectionOfBodyOrEmpty(procs, template, qualifier, body, instances, env) ==
    IF goalSolutions(procs, body, env) = NoSolutions
    THEN UnifyK(instances, atomEmptyList, env)
    ELSE collectGrouped(goalSolutions(procs, body, env),
                        Except(FreeVariables(env, <<body>>),
                               FreeVariables(env, <<template, qualifier>>)),
                        template, instances, env)

\* collectionOf from groupingVariables on.
collectionOfBody(procs, template, qualifier, body, instances, env) ==
    collectGrouped(goalSolutions(procs, body, env),
                   Except(FreeVariables(env, <<body>>),
                          FreeVariables(env, <<template, qualifier>>)),
                   template, instances, env)

\* The body of the goal: goal.Args[1] of Qualifier^Body.
collectionBody(goal) ==
    IF IsCompound(goal) /\ goal.f = "^" /\ Len(goal.args) = 2 THEN goal.args[2] ELSE goal

collectionQualifier(goal) ==
    IF IsCompound(goal) /\ goal.f = "^" /\ Len(goal.args) = 2
    THEN goal.args[1] ELSE NewAtom("")

collectionOfResolved(procs, template, goal, instances, env) ==
    IF IsVar(goal)
    THEN ErrorStream(InstantiationError)
    ELSE collectionOfBody(procs, template, collectionQualifier(goal),
                          collectionBody(goal), instances, env)

\* VM.BagOf, forced: the calls of k and the error.
BagOf(procs, template, goal, instances, env) ==
    collectionOfResolved(procs, template, Resolve(env, goal), instances, env)

(***************************************************************************)
(* SpecCollect: findall/3 or bagof/3 called once against a database of     *)
(* facts.                                                                  *)
(***************************************************************************)
CollectDb ==
    (<<"f", 1>> :> Clauses(compileDb(fOf(NewAtom("a")), NewEnv, 1).cs
                           \o compileDb(fOf(NewAtom("b")), NewEnv, 2).cs))
    @@ (<<"g", 2>> :> Clauses(compileDb(Cmp("g", <<NewAtom("b"), NewAtom("a")>>), NewEnv, 3).cs
                              \o compileDb(Cmp("g", <<NewAtom("a"), NewAtom("b")>>), NewEnv, 4).cs
                              \o compileDb(Cmp("g", <<NewAtom("b"), NewAtom("b")>>), NewEnv, 5).cs))
    @@ (<<"nope", 0>> :> Clauses(<<>>))

VarL == Variable(5)

CollectGoals ==
    {fOf(Variable(2)), fOf(NewAtom("c")), fOf(NewAtom("a")),
     Cmp("g", <<Variable(2), Variable(3)>>),
     Cmp("g", <<NewAtom("c"), Variable(3)>>),
     Cmp("g", <<Variable(2), NewAtom("c")>>),
     Cmp("^", <<Variable(3), Cmp("g", <<Variable(2), Variable(3)>>)>>),
     Cmp("^", <<Variable(3), Cmp("g", <<Variable(2), NewAtom("c")>>)>>),
     NewAtom("nope"), Cmp("u", <<Variable(2)>>), Variable(4), Integer(1)}

CollectTemplates == {Variable(2), Variable(3), fOf(Variable(2)), NewAtom("a")}

CollectInstances ==
    {VarL, atomEmptyList, List(<<NewAtom("a")>>), List(<<VarL>>), NewAtom("a")}

Collected(op, template, goal, instances, got) ==
    [made |-> TRUE, op |-> op, template |-> template, goal |-> goal,
     instances |-> instances, got |-> got]

DoFindAll ==
    /\ ~coLast.made
    /\ \E template \in CollectTemplates : \E goal \in CollectGoals :
       \E instances \in CollectInstances :
          coLast' = Collected("findall", template, goal, instances,
                              FindAll(CollectDb, template, goal, instances, NewEnv))
    /\ UNCHANGED <<ntLast, vmUnknown, ukLast, dictVars, lastVars, stackVars>>

DoBagOf ==
    /\ ~coLast.made
    /\ \E template \in CollectTemplates : \E goal \in CollectGoals :
       \E instances \in CollectInstances :
          coLast' = Collected("bagof", template, goal, instances,
                              BagOf(CollectDb, template, goal, instances, NewEnv))
    /\ UNCHANGED <<ntLast, vmUnknown, ukLast, dictVars, lastVars, stackVars>>

InitCollect == EnvIdle /\ UnifyIdle /\ ForceIdle /\ LaterIdle

NextCollect == DoFindAll \/ DoBagOf

SpecCollect == InitCollect /\ [][NextCollect]_vars

(***************************************************************************)
(* Dicts (compound_test.go): a compound dict(Tag, K1, V1, ..., Kn, Vn)     *)
(* with its keys in ascending order of the atoms.                          *)
(***************************************************************************)
atomDict == "dict"

IsAtom(x) == x.t = "atom"

IsDict(x) == IsCompound(x) /\ x.f = atomDict

\* keys[i] < keys[j] on atoms
AtomLess(x, y) == StringRank(x.a) < StringRank(y.a)

errInvalidDict == GoError("invalid dict")

errKeyExpected == GoError("key expected")

duplicateKeyError(key) == [e |-> "duplicate key", key |-> key]

domainErrorDictKey(culprit) ==
    Exception(Cmp("error", <<Cmp("domain_error", <<NewAtom("dict_key"), culprit>>), rootContext>>))

typeErrorDict(culprit) ==
    Exception(Cmp("error", <<Cmp("type_error", <<NewAtom("dict"), culprit>>), rootContext>>))

typeErrorPair(culprit) ==
    Exception(Cmp("error", <<Cmp("type_error", <<NewAtom("pair"), culprit>>), rootContext>>))

existenceErrorProcedure(culprit) ==
    Exception(Cmp("error",
        <<Cmp("existence_error", <<NewAtom("procedure"), culprit>>), rootContext>>))

\* newDict(args)
newDict(args) == Cmp(atomDict, args)

DictTag(d) == d.args[1]

DictLen(d) == (Len(d.args) - 1) \div 2

\* d.At(i), i counted from 0
DictKeyAt(d, i) == d.args[2 + 2 * i]

DictValueAt(d, i) == d.args[3 + 2 * i]

\* The loop of processArgs over rest: kv in the order of insertion.
RECURSIVE scanPairs(_, _, _)
scanPairs(rest, i, kv) ==
    IF i > Len(rest) THEN [err |-> NoErr, kv |-> kv]
    ELSE IF ~IsAtom(rest[i]) THEN [err |-> errKeyExpected, kv |-> <<>>]
    ELSE IF \E j \in 1..Len(kv) : kv[j][1] = rest[i]
    THEN [err |-> duplicateKeyError(rest[i]), kv |-> <<>>]
    ELSE scanPairs(rest, i + 2, Append(kv, <<rest[i], rest[i + 1]>>))

\* sort.Slice(keys, keys[i] < keys[j]) on keys that are all different.
RECURSIVE insertPair(_, _)
insertPair(sorted, kv) ==
    IF sorted = <<>> THEN <<kv>>
    ELSE IF AtomLess(kv[1], Head(sorted)[1]) THEN <<kv>> \o sorted
    ELSE <<Head(sorted)>> \o insertPair(Tail(sorted), kv)

RECURSIVE sortPairs(_)
sortPairs(kv) ==
    IF kv = <<>> THEN <<>> ELSE insertPair(sortPairs(Tail(kv)), Head(kv))

\* processedArgs = append(processedArgs, key, kv[key]) for each key
RECURSIVE flattenPairs(_)
flattenPairs(kv) ==
    IF kv = <<>> THEN <<>> ELSE <<Head(kv)[1], Head(kv)[2]>> \o flattenPairs(Tail(kv))

DictResult(err, d) == [err |-> err, dict |-> d]

\* A processArgs that keeps the pairs in the order they were given in.
processArgsUnsorted(args) ==
    IF Len(args) = 0 \/ Len(args) % 2 = 0
    THEN DictResult(errInvalidDict, NoDictTerm)
    ELSE IF scanPairs(Tail(args), 1, <<>>).err # NoErr
    THEN DictResult(scanPairs(Tail(args), 1, <<>>).err, NoDictTerm)
    ELSE DictResult(NoErr,
             newDict(<<Head(args)>> \o flattenPairs(scanPairs(Tail(args), 1, <<>>).kv)))

\* processArgs and newDict
processArgs(args) ==
    IF Len(args) = 0 \/ Len(args) % 2 = 0
    THEN DictResult(errInvalidDict, NoDictTerm)
    ELSE IF scanPairs(Tail(args), 1, <<>>).err # NoErr
    THEN DictResult(scanPairs(Tail(args), 1, <<>>).err, NoDictTerm)
    ELSE DictResult(NoErr,
             newDict(<<Head(args)>>
                     \o flattenPairs(sortPairs(scanPairs(Tail(args), 1, <<>>).kv))))

NewDict(args) == processArgs(args)

ValueFound(v) == [ok |-> TRUE, v |-> v]

ValueMissing == [ok |-> FALSE, v |-> NoDictTerm]

\* A search that skips the key at mid + 1 when it goes right.
RECURSIVE valueSearchSkipping(_, _, _, _)
valueSearchSkipping(d, key, lo, hi) ==
    IF lo > hi THEN ValueMissing
    ELSE IF DictKeyAt(d, (lo + hi) \div 2) = key
    THEN ValueFound(DictValueAt(d, (lo + hi) \div 2))
    ELSE IF AtomLess(DictKeyAt(d, (lo + hi) \div 2), key)
    THEN valueSearchSkipping(d, key, (lo + hi) \div 2 + 2, hi)
    ELSE valueSearchSkipping(d, key, lo, (lo + hi) \div 2 - 1)

\* The loop of dict.Value: lo and hi are counted from 0.
RECURSIVE valueSearch(_, _, _, _)
valueSearch(d, key, lo, hi) ==
    IF lo > hi THEN ValueMissing
    ELSE IF DictKeyAt(d, (lo + hi) \div 2) = key
    THEN ValueFound(DictValueAt(d, (lo + hi) \div 2))
    ELSE IF AtomLess(DictKeyAt(d, (lo + hi) \div 2), key)
    THEN valueSearch(d, key, (lo + hi) \div 2 + 1, hi)
    ELSE valueSearch(d, key, lo, (lo + hi) \div 2 - 1)

\* d.Value(key)
Value(d, key) == valueSearch(d, key, 0, DictLen(d) - 1)

\* The loops of mergeDict over dPairs and nPairs (i, j counted from 1).
RECURSIVE mergePairs(_, _, _, _)
mergePairs(dPairs, nPairs, i, j) ==
    CASE i > Len(dPairs) -> SubSeq(nPairs, j, Len(nPairs))
      [] j > Len(nPairs) -> SubSeq(dPairs, i, Len(dPairs))
      [] dPairs[i] = nPairs[j] ->
            <<nPairs[j], nPairs[j + 1]>> \o mergePairs(dPairs, nPairs, i + 2, j + 2)
      [] AtomLess(dPairs[i], nPairs[j]) ->
            <<dPairs[i], dPairs[i + 1]>> \o mergePairs(dPairs, nPairs, i + 2, j)
      [] OTHER ->
            <<nPairs[j], nPairs[j + 1]>> \o mergePairs(dPairs, nPairs, i, j + 2)

\* A merge in which the value of the original dict wins.
mergeDictKeeping(n, d) ==
    newDict(<<DictTag(d)>> \o mergePairs(Tail(n.args), Tail(d.args), 1, 1))

\* mergeDict(n, d): n merged into d.
mergeDict(n, d) ==
    newDict(<<DictTag(d)>> \o mergePairs(Tail(d.args), Tail(n.args), 1, 1))

\* assertPair(pair, env)
assertPair(pair) ==
    CASE IsCompound(pair) /\ Len(pair.args) = 1 ->
            [err |-> NoErr, kv |-> <<NewAtom(pair.f), pair.args[1]>>]
      [] IsCompound(pair) /\ Len(pair.args) = 2 /\ pair.f \in {":", "=", "-"}
         /\ IsAtom(pair.args[1]) ->
            [err |-> NoErr, kv |-> <<pair.args[1], pair.args[2]>>]
      [] OTHER -> [err |-> typeErrorPair(pair), kv |-> <<>>]

\* The loop of newDictFromListOfPairs over a proper list.
RECURSIVE pairsOfList(_, _, _)
pairsOfList(l, env, args) ==
    IF ~(IsCompound(Resolve(env, l)) /\ Resolve(env, l).f = "." /\ Len(Resolve(env, l).args) = 2)
    THEN DictResult(NoErr, args)
    ELSE IF assertPair(Resolve(env, Resolve(env, l).args[1])).err # NoErr
    THEN DictResult(assertPair(Resolve(env, Resolve(env, l).args[1])).err, <<>>)
    ELSE pairsOfList(Resolve(env, l).args[2], env,
                     args \o assertPair(Resolve(env, Resolve(env, l).args[1])).kv)

\* NewVariable() of newDictFromListOfPairs
PairsTag == Variable(9)

newDictFromListOfPairs(l, env) ==
    IF pairsOfList(l, env, <<PairsTag>>).err # NoErr
    THEN DictResult(pairsOfList(l, env, <<PairsTag>>).err, NoDictTerm)
    ELSE NewDict(pairsOfList(l, env, <<PairsTag>>).dict)

tuple(x, y) == Cmp("tuple", <<x, y>>)

\* Delay(promises...) of GetDict3 for a variable key path, forced.
RECURSIVE getEach(_, _, _, _, _)
getEach(d, i, keyPath, result, env) ==
    IF i >= DictLen(d) THEN NoSolutions
    ELSE Cat(UnifyK(tuple(keyPath, result),
                    tuple(DictKeyAt(d, i), Value(d, DictKeyAt(d, i)).v), env),
             getEach(d, i + 1, keyPath, result, env))

\* The temporary variables of a key path Key1/Key2.
TempA == Variable(7)

TempB == Variable(8)

RECURSIVE GetDict3(_, _, _, _)
RECURSIVE getDictResolved(_, _, _, _)
RECURSIVE getDictSecond(_, _, _, _)
RECURSIVE getDictThird(_, _, _)

\* The continuation of the second step of a path Key1/Key2, for each of its
\* solutions: Unify(tempB, result, cont, env).
getDictThird(sols, result, err) ==
    IF sols = <<>> THEN ErrorStream(err)
    ELSE Cat(UnifyK(TempB, result, Head(sols).env),
             getDictThird(Tail(sols), result, err))

\* The continuation of the first step, for each of its solutions:
\* GetDict3(vm, keyPath.Arg(1), tempA, tempB, ..., env).
getDictSecond(sols, key, result, err) ==
    IF sols = <<>> THEN ErrorStream(err)
    ELSE Cat(getDictThird(GetDict3(key, TempA, TempB, Head(sols).env).sols, result,
                          GetDict3(key, TempA, TempB, Head(sols).env).err),
             getDictSecond(Tail(sols), key, result, err))

getDictResolved(keyPath, d, result, env) ==
    CASE IsVar(d) -> ErrorStream(InstantiationError)
      [] ~IsDict(d) -> ErrorStream(typeErrorDict(d))
      [] IsVar(keyPath) -> getEach(d, 0, keyPath, result, env)
      [] IsAtom(keyPath) ->
            IF Value(d, keyPath).ok
            THEN UnifyK(result, Value(d, keyPath).v, env)
            ELSE NoSolutions
      [] IsCompound(keyPath) /\ keyPath.f = "/" /\ Len(keyPath.args) = 2 ->
            getDictSecond(GetDict3(keyPath.args[1], d, TempA, env).sols,
                          keyPath.args[2], result,
                          GetDict3(keyPath.args[1], d, TempA, env).err)
      [] OTHER -> ErrorStream(domainErrorDictKey(keyPath))

\* GetDict3(vm, keyPath, dict, result, cont, env), forced: the calls of cont
\* and the error.
GetDict3(keyPath, dict, result, env) ==
    getDictResolved(Resolve(env, keyPath), Resolve(env, dict), result, env)

putDictMerged(r, dictIn, dictOut, env) ==
    IF r.err # NoErr
    THEN ErrorStream(r.err)
    ELSE UnifyK(dictOut, mergeDict(r.dict, dictIn), env)

putDictResolved(new, dictIn, dictOut, env) ==
    CASE IsVar(dictIn) -> ErrorStream(InstantiationError)
      [] ~IsDict(dictIn) -> ErrorStream(typeErrorDict(dictIn))
      [] IsVar(new) -> ErrorStream(InstantiationError)
      [] IsDict(new) -> UnifyK(dictOut, mergeDict(new, dictIn), env)
      [] IsCompound(new) ->
            putDictMerged(newDictFromListOfPairs(new, env), dictIn, dictOut, env)
      [] OTHER -> ErrorStream(typeErrorPair(new))

\* PutDict3(vm, new, dictIn, dictOut, cont, env), forced.
PutDict3(new, dictIn, dictOut, env) ==
    putDictResolved(Resolve(env, new), Resolve(env, dictIn), dictOut, env)

\* A Dict.Key that fails when the key is missing, as get does.
op3Lenient(function, d, result, env) ==
    CASE IsVar(d) -> ErrorStream(InstantiationError)
      [] ~IsDict(d) -> ErrorStream(typeErrorDict(d))
      [] OTHER -> GetDict3(function, d, result, env)

op3Resolved(function, d, result, env) ==
    CASE IsVar(d) -> ErrorStream(InstantiationError)
      [] ~IsDict(d) -> ErrorStream(typeErrorDict(d))
      [] IsVar(function) -> GetDict3(function, d, result, env)
      [] IsAtom(function) ->
            IF Value(d, function).ok
            THEN UnifyK(result, Value(d, function).v, env)
            ELSE ErrorStream(domainErrorDictKey(function))
      [] IsCompound(function) ->
            CASE function.f = "get" /\ Len(function.args) = 1 ->
                    GetDict3(function.args[1], d, result, env)
              [] function.f = "put" /\ Len(function.args) = 1 ->
                    PutDict3(function.args[1], d, result, env)
              [] OTHER -> ErrorStream(existenceErrorProcedure(function))
      [] OTHER -> ErrorStream(typeErrorCallable(function))

\* Op3(vm, dict, function, result, cont, env), forced.
Op3(dict, function, result, env) ==
    op3Resolved(Resolve(env, function), Resolve(env, dict), result, env)

(***************************************************************************)
(* SpecDict: a dict is built by NewDict, changed by put, and read by       *)
(* Dict.Key (Op3) and get.                                                 *)
(***************************************************************************)
MaxDictPairs == 3

KeyAtoms == {NewAtom("a"), NewAtom("b"), NewAtom("f"), NewAtom("g")}

InnerDict == newDict(<<NewAtom("b"), NewAtom("a"), Integer(1)>>)

DictTags == {NewAtom("b"), Variable(2)}

DictKeyTerms == KeyAtoms \cup {Integer(1)}

DictValueTerms == {NewAtom("a"), Integer(1)}

\* The argument lists of n terms: a tag, then keys and values in turn.
RECURSIVE DictArgsOfLen(_)
DictArgsOfLen(n) ==
    IF n = 0 THEN {<<>>}
    ELSE {Append(args, x) :
            args \in DictArgsOfLen(n - 1),
            x \in IF n = 1 THEN DictTags
                  ELSE IF n % 2 = 0 THEN DictKeyTerms ELSE DictValueTerms}

DictArgs == UNION {DictArgsOfLen(n) : n \in 0..(2 * MaxDictPairs + 1)}

\* What is put: dicts and lists of pairs in each of the four notations.
PutTerms ==
    {newDict(<<Variable(3)>>),
     newDict(<<NewAtom("f"), NewAtom("a"), InnerDict>>),
     newDict(<<Variable(3), NewAtom("b"), Integer(2), NewAtom("g"), Integer(2)>>),
     List(<<Cmp("-", <<NewAtom("f"), Integer(2)>>), Cmp("a", <<Integer(2)>>)>>),
     List(<<Cmp("=", <<NewAtom("g"), Integer(2)>>), Cmp(":", <<NewAtom("b"), Integer(2)>>)>>),
     List(<<Cmp("-", <<NewAtom("a"), Integer(2)>>), Cmp("-", <<NewAtom("a"), Integer(3)>>)>>),
     List(<<Cmp("-", <<Integer(1), Integer(2)>>)>>),
     Integer(1)}

VarOut == Variable(5)

DictFunctions ==
    KeyAtoms \cup {Variable(3), Integer(1), Cmp("/", <<NewAtom("a"), NewAtom("a")>>),
                   Cmp("get", <<NewAtom("a")>>), Cmp("h", <<NewAtom("a")>>)}

DictResults == {Variable(4), NewAtom("a"), Integer(1)}

DoNewDict ==
    /\ dcLast = NoDictOp
    /\ \E args \in DictArgs :
          /\ dcLast' = [op |-> "NewDict", args |-> args, got |-> NewDict(args)]
          /\ dcDict' = NewDict(args).dict
    /\ UNCHANGED <<ntLast, vmUnknown, ukLast, coLast, lastVars, stackVars>>

\* put(New) on the dict that NewDict made; the dict it gives is read next.
DoPutDict ==
    /\ dcDict # NoDictTerm
    /\ dcLast.op = "NewDict"
    /\ \E new \in PutTerms :
          /\ dcLast' = [op |-> "put", new |-> new, dictIn |-> dcDict,
                        got |-> PutDict3(new, dcDict, VarOut, NewEnv)]
          /\ dcDict' = IF PutDict3(new, dcDict, VarOut, NewEnv).sols # <<>>
                       THEN Resolve(PutDict3(new, dcDict, VarOut, NewEnv).sols[1].env, VarOut)
                       ELSE dcDict
    /\ UNCHANGED <<ntLast, vmUnknown, ukLast, coLast, lastVars, stackVars>>

\* Dict.Function
DoOp3 ==
    /\ dcDict # NoDictTerm
    /\ dcLast.op \in {"NewDict", "put"}
    /\ \E function \in DictFunctions : \E result \in DictResults :
          dcLast' = [op |-> "Op3", function |-> function, result |-> result,
                     got |-> Op3(dcDict, function, result, NewEnv)]
    /\ UNCHANGED <<dcDict, ntLast, vmUnknown, ukLast, coLast, lastVars, stackVars>>

\* get_dict(KeyPath, Dict, Result)
DoGetDict ==
    /\ dcDict # NoDictTerm
    /\ dcLast.op \in {"NewDict", "put"}
    /\ \E keyPath \in DictFunctions : \E result \in DictResults :
          dcLast' = [op |-> "get", function |-> keyPath, result |-> result,
                     got |-> GetDict3(keyPath, dcDict, result, NewEnv)]
    /\ UNCHANGED <<dcDict, ntLast, vmUnknown, ukLast, coLast, lastVars, stackVars>>

InitDict == EnvIdle /\ UnifyIdle /\ ForceIdle /\ LaterIdle

NextDict == DoNewDict \/ DoPutDict \/ DoOp3 \/ DoGetDict

SpecDict == InitDict /\ [][NextDict]_vars

(***************************************************************************)
(* The clause compiler with arguments (clause.go): desugar, the head and   *)
(* body instructions of a clause and its table of variables.  A clause     *)
(* under construction is a record of its vars and its bytecode; the terms  *)
(* are atoms, integers, variables, compounds and dicts (the list types of  *)
(* Go are left out).                                                       *)
(***************************************************************************)
atomSpecialDot == "$dot"

atomDot == "."

atomCall == "call"

\* A nil Term: the body of a fact.
nilTerm == NoDictTerm

instruction(opcode, operand) == [op |-> opcode, operand |-> operand]

OpPop == [op |-> "Pop"]

\* procedureIndicator{name, arity}
procedureIndicator(name, arity) == <<name, arity>>

\* var c clause, after compileHead has set c.pi
newClause == [vars |-> <<>>, bytecode |-> <<>>]

\* c.emit(i)
clauseEmit(c, i) == [c EXCEPT !.bytecode = Append(@, i)]

\* seq(sep, ts...): the terms joined by sep, nested to the right.
RECURSIVE seq(_, _)
seq(sep, ts) ==
    IF Len(ts) = 1 THEN ts[1] ELSE Cmp(sep, <<Head(ts), seq(sep, Tail(ts))>>)

\* What desugar returns, and the counter of NewVariable after it.
Desugared(term, acc, n) == [term |-> term, acc |-> acc, n |-> n]

\* desugar(term, acc): every t.d is replaced by a fresh variable TempV and
\* '.'(t, d, TempV) is appended to acc; n is the counter of NewVariable.
RECURSIVE desugar(_, _, _)
RECURSIVE desugarArgs(_, _, _, _)
desugarArgs(args, i, acc, n) ==
    IF i > Len(args)
    THEN [args |-> args, acc |-> acc, n |-> n]
    ELSE LET d == desugar(args[i], acc, n)
         IN  desugarArgs([args EXCEPT ![i] = d.term], i + 1, d.acc, d.n)

desugar(term, acc, n) ==
    IF ~IsCompound(term)
    THEN Desugared(term, acc, n)
    ELSE IF term.f = atomSpecialDot /\ Len(term.args) = 2
    THEN LET tempV == Variable(n + 1)
             d == desugarArgs(term.args, 1, acc, n + 1)
         IN  Desugared(tempV,
                       Append(d.acc, Cmp(atomDot, <<d.args[1], d.args[2], tempV>>)),
                       d.n)
    ELSE LET d == desugarArgs(term.args, 1, acc, n)
         IN  Desugared(Cmp(term.f, d.args), d.acc, d.n)

\* What varOffset returns: the clause and the slot.
Slot(c, n) == [c |-> c, n |-> n]

\* A varOffset that never looks the variable up.
varOffsetAppending(c, o) == Slot([c EXCEPT !.vars = Append(@, o)], Len(c.vars))

\* c.varOffset(o): the slot of o, a new one at the end when o has none.
varOffset(c, o) ==
    IF \E i \in 1..Len(c.vars) : c.vars[i] = o
    THEN Slot(c, (CHOOSE i \in 1..Len(c.vars) :
                     /\ c.vars[i] = o
                     /\ \A j \in 1..(i - 1) : c.vars[j] # o) - 1)
    ELSE Slot([c EXCEPT !.vars = Append(@, o)], Len(c.vars))

\* c.compileHeadArg(a, env)
RECURSIVE clauseCompileHeadArg(_, _, _)
RECURSIVE clauseCompileHeadArgs(_, _, _, _)
clauseCompileHeadArgs(c, args, i, env) ==
    IF i > Len(args)
    THEN c
    ELSE clauseCompileHeadArgs(clauseCompileHeadArg(c, args[i], env), args, i + 1, env)

clauseCompileHeadArgResolved(c, arg, env) ==
    CASE IsVar(arg) ->
            LET s == varOffset(c, arg)
            IN  clauseEmit(s.c, instruction("GetVar", s.n))
      [] IsCompound(arg) ->
            clauseEmit(
                clauseCompileHeadArgs(
                    clauseEmit(c, IF IsDict(arg)
                                  THEN instruction("GetDict", Len(arg.args))
                                  ELSE instruction("GetFunctor",
                                           procedureIndicator(arg.f, Len(arg.args)))),
                    arg.args, 1, env),
                OpPop)
      [] OTHER -> clauseEmit(c, OpGetConst(arg))

clauseCompileHeadArg(c, arg, env) ==
    clauseCompileHeadArgResolved(c, Resolve(env, arg), env)

\* c.compileHead(head, env)
clauseCompileHeadResolved(c, head, env) ==
    IF IsCompound(head) THEN clauseCompileHeadArgs(c, head.args, 1, env) ELSE c

clauseCompileHead(c, head, env) ==
    clauseCompileHeadResolved(c, Resolve(env, head), env)

\* c.compileBodyArg(a, env)
RECURSIVE clauseCompileBodyArg(_, _, _)
RECURSIVE clauseCompileBodyArgs(_, _, _, _)
clauseCompileBodyArgs(c, args, i, env) ==
    IF i > Len(args)
    THEN c
    ELSE clauseCompileBodyArgs(clauseCompileBodyArg(c, args[i], env), args, i + 1, env)

clauseCompileBodyArgResolved(c, arg, env) ==
    CASE IsVar(arg) ->
            LET s == varOffset(c, arg)
            IN  clauseEmit(s.c, instruction("PutVar", s.n))
      [] IsCompound(arg) ->
            clauseEmit(
                clauseCompileBodyArgs(
                    clauseEmit(c, IF IsDict(arg)
                                  THEN instruction("PutDict", Len(arg.args))
                                  ELSE instruction("PutFunctor",
                                           procedureIndicator(arg.f, Len(arg.args)))),
                    arg.args, 1, env),
                OpPop)
      [] OTHER -> clauseEmit(c, instruction("PutConst", arg))

clauseCompileBodyArg(c, arg, env) ==
    clauseCompileBodyArgResolved(c, Resolve(env, arg), env)

\* What compilePred and compileBody return: the clause and whether the
\* error is errNotCallable.
Pred(c, ok) == [c |-> c, ok |-> ok]

OpCallPi(name, arity) == instruction("Call", procedureIndicator(name, arity))

\* c.compilePred(p, env); a variable goal is compiled as call(p).
clauseCompilePredResolved(c, p, env) ==
    CASE IsVar(p) ->
            Pred(clauseEmit(clauseCompileBodyArg(c, p, env), OpCallPi(atomCall, 1)),
                 TRUE)
      [] p.t = "atom" ->
            Pred(clauseEmit(c, IF p = atomCut THEN OpCut ELSE OpCallPi(p.a, 0)), TRUE)
      [] IsCompound(p) ->
            Pred(clauseEmit(clauseCompileBodyArgs(c, p.args, 1, env),
                            OpCallPi(p.f, Len(p.args))),
                 TRUE)
      [] OTHER -> Pred(c, FALSE)

clauseCompilePred(c, p, env) == clauseCompilePredResolved(c, Resolve(env, p), env)

\* The loop of compileBody over the goals of the body; it returns at the
\* first goal that is not callable.
RECURSIVE clauseCompilePreds(_, _, _)
clauseCompilePreds(c, goals, env) ==
    IF goals = <<>>
    THEN Pred(c, TRUE)
    ELSE LET r == clauseCompilePred(c, Head(goals), env)
         IN  IF r.ok THEN clauseCompilePreds(r.c, Tail(goals), env) ELSE r

\* c.compileBody(body, env)
clauseCompileBody(c, body, env) ==
    clauseCompilePreds(clauseEmit(c, OpEnter), seqIterator(env, body), env)

\* The goals of compileClause in the order of the conjunction it compiles.
\* Here the body follows the auxiliary goals.
goalsBodyLast(aux, body) == IF body # nilTerm THEN Append(aux, body) ELSE aux

\* What compileClause returns, and the counter of NewVariable after it.
CompiledClause(c, err, n) == [c |-> c, err |-> err, n |-> n]

\* compileClause(head, body, env) after desugar has given the head h and
\* the body d with the auxiliary goals d.acc.
compileClauseGoals(h, d, goals, env) ==
    LET body == IF goals # <<>> THEN seq(",", goals) ELSE d.term
        c == clauseCompileHead(newClause, h.term, env)
        r == IF body # nilTerm THEN clauseCompileBody(c, body, env) ELSE Pred(c, TRUE)
    IN  IF r.ok
        THEN CompiledClause(clauseEmit(r.c, OpExit), NoErr, d.n)
        ELSE CompiledClause(r.c, typeErrorCallable(body), d.n)

compileClauseDesugared(h, d, env) ==
    compileClauseGoals(h, d, goalsBodyLast(d.acc, d.term), env)

\* compileClause(head, body, env), with n the counter of NewVariable.
compileClauseFrom(head, body, env, n) ==
    compileClauseDesugared(desugar(head, <<>>, n), 
                           desugar(body, desugar(head, <<>>, n).acc,
                                   desugar(head, <<>>, n).n),
                           env)

\* What compile returns: the clauses, or nil with the error.
CompileOk(cs) == [err |-> NoErr, cs |-> cs]

CompileError(err, cs) == [err |-> err, cs |-> cs]

\* The loop of compile over the alternatives of the body.
RECURSIVE compileRuleAlts(_, _, _, _, _, _)
compileRuleAlts(t, alts, cs, env, n, body) ==
    IF alts = <<>>
    THEN CompileOk(cs)
    ELSE LET r == compileClauseFrom(t.args[1], Head(alts), env, n)
         IN  IF r.err # NoErr
             THEN CompileError(typeErrorCallable(body), <<>>)
             ELSE compileRuleAlts(t, Tail(alts), Append(cs, r.c), env, r.n, body)

\* compile(t, env), with n the counter of NewVariable; the raw term and the
\* indicator of the clauses are left out.
compileTermResolved(t, env, n) ==
    IF IsOp(t, atomIf)
    THEN compileRuleAlts(t, altIterator(env, t.args[2]), <<>>, env, n, t.args[2])
    ELSE LET r == compileClauseFrom(t, nilTerm, env, n)
         IN  CompileError(r.err, <<r.c>>)

compileTerm(t, env, n) == compileTermResolved(Resolve(env, t), env, n)

(***************************************************************************)
(* SpecCompile: compile is called on a clause term: a fact or a rule whose *)
(* body has up to MaxGoals goals or two alternatives, with variables the   *)
(* parser made before.                                                     *)
(***************************************************************************)
MaxGoals == 2

\* The counter of NewVariable when compile is called.
ParsedVariables == 4

\* t.d as the parser leaves it
Dot(t, d) == Cmp(atomSpecialDot, <<t, d>>)

CompileHeads ==
    {NewAtom("h"), Cmp("h", <<X>>), Cmp("h", <<X, a>>), Cmp("h", <<f(X), Y>>),
     Cmp("h", <<g(Y, X), X>>), Cmp("h", <<Dot(X, a)>>),
     Cmp("h", <<Dot(newDict(<<NewAtom("p"), a, Integer(5)>>), a), Y>>)}

CompileGoals ==
    {atomCut, X, NewAtom("q"), Cmp("p", <<Y>>), Cmp("p", <<Z>>),
     Cmp("r", <<X, f(Y)>>), Cmp("p", <<Dot(Y, b)>>),
     Cmp("r", <<Dot(Dot(Z, a), b), Z>>), Integer(1)}

RECURSIVE GoalLists(_)
GoalLists(n) ==
    IF n = 0
    THEN {<<>>}
    ELSE {<<goal>> \o rest : goal \in CompileGoals, rest \in GoalLists(n - 1)}

CompileBodies ==
    {seq(",", goals) : goals \in UNION {GoalLists(n) : n \in 1..MaxGoals}}
        \cup {Alt(s, t) : s, t \in {Cmp("p", <<Y>>), Conj(X, atomCut), Integer(1)}}

ClauseTerms ==
    CompileHeads \cup {Rule(head, body) : head \in CompileHeads, body \in CompileBodies}

DoCompile ==
    /\ ~cpLast.made
    /\ \E t \in ClauseTerms :
          cpLast' = [made |-> TRUE, t |-> t,
                     got |-> compileTerm(t, NewEnv, ParsedVariables)]
    /\ UNCHANGED stackVars
    /\ UNCHANGED <<byteVars, resolveVars, rnLast, liveVars, ntLast, vmUnknown, ukLast, coLast, dictVars>>

InitCompile ==
    /\ EnvIdle
    /\ UnifyIdle
    /\ ForceIdle
    /\ LaterIdle

NextCompile == DoCompile

SpecCompile == InitCompile /\ [][NextCompile]_vars

(***************************************************************************)
(* get_byte/2 and peek_byte/2 (builtin.go).  A stream is a record of its   *)
(* type, its eof action and its source: "nil" for a stream without source, *)
(* "reader" for an io.Reader and "bufio" for a *bufio.Reader over the      *)
(* bytes data, pos of which are read; a broken source returns an error     *)
(* that is not io.EOF.                                                     *)
(***************************************************************************)
Stream(source, streamType, eofAction, data, broken) ==
    [source |-> source, streamType |-> streamType, eofAction |-> eofAction,
     data |-> data, pos |-> 0, broken |-> broken]

typeErrorInByte(culprit) ==
    Exception(Cmp("error", <<Cmp("type_error", <<NewAtom("in_byte"), culprit>>), rootContext>>))

permissionErrorInput(permissionType, culprit) ==
    Exception(Cmp("error",
        <<Cmp("permission_error", <<NewAtom("input"), NewAtom(permissionType), culprit>>),
          rootContext>>))

existenceErrorStream(culprit) ==
    Exception(Cmp("error", <<Cmp("existence_error", <<NewAtom("stream"), culprit>>), rootContext>>))

domainErrorStreamOrAlias(culprit) ==
    Exception(Cmp("error",
        <<Cmp("domain_error", <<NewAtom("stream_or_alias"), culprit>>), rootContext>>))

SystemError(err) ==
    Exception(Cmp("error", <<Cmp("system_error", <<NewAtom(err.msg)>>), rootContext>>))

\* A *Stream as a term, and the alias under which vm.streams holds it.
StreamTerm == [t |-> "stream"]

atomUserInput == NewAtom("user_input")

\* vm.stream(streamOrAlias, env), with s the one stream of the VM.
streamResolved(s, streamOrAlias) ==
    CASE IsVar(streamOrAlias) -> [err |-> InstantiationError, found |-> FALSE]
      [] IsAtom(streamOrAlias) ->
            IF streamOrAlias = atomUserInput
            THEN [err |-> NoErr, found |-> TRUE]
            ELSE [err |-> existenceErrorStream(streamOrAlias), found |-> FALSE]
      [] streamOrAlias = StreamTerm -> [err |-> NoErr, found |-> TRUE]
      [] OTHER -> [err |-> domainErrorStreamOrAlias(streamOrAlias), found |-> FALSE]

stream(s, streamOrAlias, env) == streamResolved(s, Resolve(env, streamOrAlias))

ioEOF == GoError("EOF")

errBroken == GoError("broken")

\* s.Source.Read(b) with a buffer of one byte: the byte, the error and the
\* source after it.
Read(s) ==
    CASE s.broken -> [b |-> 0, err |-> errBroken, s |-> s]
      [] s.pos >= Len(s.data) -> [b |-> 0, err |-> ioEOF, s |-> s]
      [] OTHER -> [b |-> s.data[s.pos + 1], err |-> NoErr, s |-> [s EXCEPT !.pos = @ + 1]]

\* br.Peek(1): as Read, and the source stays where it is.
Peek(s) == [Read(s) EXCEPT !.s = s]

\* What GetByte and PeekByte return, forced: the error, the solutions of
\* Unify(inByte, Integer(b), k, env), whether the promise calls the
\* built-in again, and the stream after the call.
ByteError(err, s) == [err |-> err, sols |-> <<>>, again |-> FALSE, s |-> s]

ByteUnify(inByte, value, env, s) ==
    [err |-> NoErr, sols |-> UnifyK(inByte, Integer(value), env).sols, again |-> FALSE,
     s |-> s]

ByteAgain(s) == [err |-> NoErr, sols |-> <<>>, again |-> TRUE, s |-> s]

\* The switch on the error of the read, with wrap the error returned for an
\* error that is not io.EOF.
byteRead(r, streamOrAlias, inByte, env, wrap) ==
    CASE r.err = NoErr -> ByteUnify(inByte, r.b, env, r.s)
      [] r.err = ioEOF ->
            CASE r.s.eofAction = "error" ->
                    ByteError(permissionErrorInput("past_end_of_stream", streamOrAlias), r.s)
              [] r.s.eofAction = "eof_code" -> ByteUnify(inByte, -1, env, r.s)
              [] r.s.eofAction = "reset" -> ByteAgain(r.s)
              [] OTHER -> ByteError(SystemError(GoError("unknown EOF action")), r.s)
      [] OTHER -> ByteError(wrap, r.s)

\* A GetByte that returns the error of a byte out of range.
getByteChecked(s, streamOrAlias, inByte, resolved, env) ==
    CASE IsVar(resolved) -> byteRead(Read(s), streamOrAlias, inByte, env, Read(s).err)
      [] resolved.t = "int" ->
            IF resolved.i < 0 \/ resolved.i > 255
            THEN ByteError(typeErrorInByte(inByte), s)
            ELSE byteRead(Read(s), streamOrAlias, inByte, env, Read(s).err)
      [] OTHER -> ByteError(typeErrorInByte(inByte), s)

\* GetByte after the checks of the stream, with resolved the resolved inByte: the
\* error made for an integer out of range is dropped and the byte is read.
getByteResolved(s, streamOrAlias, inByte, resolved, env) ==
    CASE IsVar(resolved) -> byteRead(Read(s), streamOrAlias, inByte, env, Read(s).err)
      [] resolved.t = "int" -> byteRead(Read(s), streamOrAlias, inByte, env, Read(s).err)
      [] OTHER -> ByteError(typeErrorInByte(inByte), s)

\* vm.GetByte(streamOrAlias, inByte, k, env)
GetByte(s, streamOrAlias, inByte, env) ==
    CASE stream(s, streamOrAlias, env).err # NoErr ->
            ByteError(stream(s, streamOrAlias, env).err, s)
      [] s.source = "nil" -> ByteError(permissionErrorInput("stream", streamOrAlias), s)
      [] s.streamType = "text" ->
            ByteError(permissionErrorInput("text_stream", streamOrAlias), s)
      [] OTHER -> getByteResolved(s, streamOrAlias, inByte, Resolve(env, inByte), env)

\* PeekByte after the checks of the stream, with resolved the resolved inByte.
peekByteResolved(s, streamOrAlias, inByte, resolved, env) ==
    CASE IsVar(resolved) ->
            byteRead(Peek(s), streamOrAlias, inByte, env, SystemError(Peek(s).err))
      [] resolved.t = "int" ->
            IF resolved.i < 0 \/ resolved.i > 255
            THEN ByteError(typeErrorInByte(inByte), s)
            ELSE byteRead(Peek(s), streamOrAlias, inByte, env, SystemError(Peek(s).err))
      [] OTHER -> ByteError(typeErrorInByte(inByte), s)

\* vm.PeekByte(streamOrAlias, inByte, k, env)
PeekByte(s, streamOrAlias, inByte, env) ==
    CASE stream(s, streamOrAlias, env).err # NoErr ->
            ByteError(stream(s, streamOrAlias, env).err, s)
      [] s.source = "nil" -> ByteError(permissionErrorInput("stream", streamOrAlias), s)
      [] s.streamType = "text" ->
            ByteError(permissionErrorInput("text_stream", streamOrAlias), s)
      [] s.source # "bufio" ->
            ByteError(permissionErrorInput("buffered_stream", streamOrAlias), s)
      [] OTHER -> peekByteResolved(s, streamOrAlias, inByte, Resolve(env, inByte), env)

(***************************************************************************)
(* SpecByte: a stream is opened, then get_byte/2 and peek_byte/2 are       *)
(* called on it up to MaxReads times.                                      *)
(***************************************************************************)
MaxReads == 2

SourceBytes == {<<>>, <<65>>, <<65, 0>>, <<255>>}

EofActions == {"error", "eof_code", "reset", "unknown"}

Streams ==
    {Stream("bufio", "binary", eofAction, data, FALSE) :
        eofAction \in EofActions, data \in SourceBytes}
      \cup {Stream("reader", "binary", "error", <<65>>, FALSE),
            Stream("bufio", "text", "error", <<65>>, FALSE),
            Stream("nil", "binary", "error", <<>>, FALSE),
            Stream("bufio", "binary", "error", <<65>>, TRUE)}

InBytes ==
    {X, Integer(0), Integer(65), Integer(255), Integer(256), Integer(-1), Integer(-2), a,
     f(X)}

\* The arguments of a call: every inByte on the stream itself, and the
\* other ways of naming a stream with a variable.
ByteCalls ==
    {<<StreamTerm, inByte>> : inByte \in InBytes}
      \cup {<<ref, X>> : ref \in {atomUserInput, b, Y, Integer(1)}}

OpenStream ==
    /\ bsStream = NoStream
    /\ \E s \in Streams : bsStream' = s
    /\ UNCHANGED bsLast
    /\ UNCHANGED <<cpLast, resolveVars, rnLast, liveVars, ntLast, vmUnknown, ukLast, coLast, dictVars, stackVars>>

ByteDone(op, given, r) ==
    /\ bsLast' = [op |-> op, n |-> bsLast.n + 1, streamOrAlias |-> given[1],
                  inByte |-> given[2], before |-> bsStream, got |-> r]
    /\ bsStream' = r.s

DoGetByte ==
    /\ bsStream # NoStream
    /\ bsLast.n < MaxReads
    /\ \E given \in ByteCalls :
          ByteDone("get_byte", given, GetByte(bsStream, given[1], given[2], NewEnv))
    /\ UNCHANGED <<cpLast, resolveVars, rnLast, liveVars, ntLast, vmUnknown, ukLast, coLast, dictVars, stackVars>>

DoPeekByte ==
    /\ bsStream # NoStream
    /\ bsLast.n < MaxReads
    /\ \E given \in ByteCalls :
          ByteDone("peek_byte", given, PeekByte(bsStream, given[1], given[2], NewEnv))
    /\ UNCHANGED <<cpLast, resolveVars, rnLast, liveVars, ntLast, vmUnknown, ukLast, coLast, dictVars, stackVars>>

InitByte ==
    /\ EnvIdle
    /\ UnifyIdle
    /\ ForceIdle
    /\ LaterIdle

NextByte == OpenStream \/ DoGetByte \/ DoPeekByte

SpecByte == InitByte /\ [][NextByte]_vars

(***************************************************************************)
(* SpecTree: a chain of environments, each made by bind from the one       *)
(* before it, over enough variables for the tree to be rebalanced in every *)
(* way.                                                                    *)
(***************************************************************************)
MaxChain == 5

TreeVariables == 2..(MaxChain + 2)

BindNewest ==
    /\ Len(envRoots) < MaxChain
    /\ \E v \in TreeVariables, t \in EnvValues :
          LET base == IF envRoots = <<>> THEN Nil ELSE envRoots[Len(envRoots)]
              e == bind([h |-> envHeap, r |-> base], v, t)
          IN  /\ t = NewAtom("a") \/ Len(envRoots) = 0
              /\ envHeap' = e.h
              /\ envRoots' = Append(envRoots, e.r)
              /\ envTables' = Append(envTables, LookupTable(e.h, e.r))
              /\ envLast' = [base |-> base, v |-> v, t |-> t]
    /\ UNCHANGED <<unifyVars, forceVars, laterVars>>

InitTree == EnvIdle /\ UnifyIdle /\ ForceIdle /\ LaterIdle

NextTree == BindNewest

SpecTree == InitTree /\ [][NextTree]_vars

(***************************************************************************)
(* SpecResolve: an environment is made by up to MaxBindings calls of bind, *)
(* each of a variable not bound so far to a variable or an atom, so that   *)
(* the bindings may form cycles; then Resolve is called and runs its loop  *)
(* one iteration at a time.                                                *)
(***************************************************************************)
MaxBindings == 3

ResolveVariables == 2..(MaxBindings + 1)

\* The terms a variable is bound to, and the terms Resolve is called on.
ResolveValues == {Variable(v) : v \in ResolveVariables} \cup {f(X)}

ResolveTerms == {Variable(v) : v \in ResolveVariables} \cup {a}

\* What an iteration of the loop of Resolve leaves: the value returned, or
\* the term and the variables seen with which the loop goes on.
ResolveReturns(t, stop) == [done |-> TRUE, t |-> t, stop |-> stop]

ResolveGoesOn(t, stop) == [done |-> FALSE, t |-> t, stop |-> stop]

\* An iteration that would not remember the variable it has looked up.
resolveStepForgetful(e, t, stop) ==
    IF IsVar(t)
    THEN IF InSeq(t, stop) THEN ResolveReturns(t, stop)
         ELSE IF ~lookup(e, t.v).ok THEN ResolveReturns(t, stop)
         ELSE ResolveGoesOn(lookup(e, t.v).t, stop)
    ELSE ResolveReturns(t, stop)

\* One iteration of the loop of Resolve on the term t, with the variables
\* stop seen so far.
resolveStep(e, t, stop) ==
    IF IsVar(t)
    THEN IF InSeq(t, stop) THEN ResolveReturns(t, stop)
         ELSE IF ~lookup(e, t.v).ok THEN ResolveReturns(t, stop)
         ELSE ResolveGoesOn(lookup(e, t.v).t, Append(stop, t))
    ELSE ResolveReturns(t, stop)

BindAny ==
    /\ rsRun = NoResolve
    /\ rsBinds < MaxBindings
    /\ \E v \in ResolveVariables, t \in ResolveValues :
          /\ ~lookup(rsEnv, v).ok
          /\ rsEnv' = bind(rsEnv, v, t)
    /\ rsBinds' = rsBinds + 1
    /\ UNCHANGED rsRun
    /\ UNCHANGED <<cpLast, byteVars, rnLast, liveVars, ntLast, vmUnknown, ukLast, coLast, dictVars, stackVars>>

StartResolve ==
    /\ rsRun = NoResolve
    /\ \E t \in ResolveTerms :
          rsRun' = [pc |-> "loop", arg |-> t, t |-> t, stop |-> <<>>]
    /\ UNCHANGED <<rsEnv, rsBinds>>
    /\ UNCHANGED <<cpLast, byteVars, rnLast, liveVars, ntLast, vmUnknown, ukLast, coLast, dictVars, stackVars>>

StepResolve ==
    /\ rsRun.pc = "loop"
    /\ LET r == resolveStep(rsEnv, rsRun.t, rsRun.stop)
       IN  rsRun' = [rsRun EXCEPT !.pc = IF r.done THEN "done" ELSE "loop",
                                  !.t = r.t, !.stop = r.stop]
    /\ UNCHANGED <<rsEnv, rsBinds>>
    /\ UNCHANGED <<cpLast, byteVars, rnLast, liveVars, ntLast, vmUnknown, ukLast, coLast, dictVars, stackVars>>

InitResolve ==
    /\ EnvIdle
    /\ UnifyIdle
    /\ ForceIdle
    /\ LaterIdle

NextResolve == BindAny \/ StartResolve \/ StepResolve

\* The loop of a call of Resolve is run on: a call of a function does not
\* stop between two of its iterations for ever.
SpecResolve == InitResolve /\ [][NextResolve]_vars /\ WF_vars(StepResolve)

(***************************************************************************)
(* The interpreter with arguments and registers (variable.go, clause.go):  *)
(* exec on Get, Put, Pop, Enter, Call and Exit with the register variables *)
(* vars, the arguments args and the stack astack of saved arguments.  The  *)
(* promises are run depth first as Force runs them: a continuation is the  *)
(* list of the frames to go on with, the alternatives of a call are tried  *)
(* in order, each after the one before it has been run to its end.  The    *)
(* counter of NewVariable and a log of what was done are threaded through. *)
(* The programs run here hold no cut and no catch, and no hook is          *)
(* installed; those are run by the driver of SpecForce and SpecVM.         *)
(***************************************************************************)
\* What a run returns: the environments with which the last continuation
\* was called, the error, and the counter and log after it.
Ran(sols, err, st) == [sols |-> sols, err |-> err, st |-> st]

\* The state of exec: pc, vars, args, astack, env, and cont as the frames
\* to go on with after Exit; inv names the invocation of the clause in the
\* log.
Machine(pc, regs, args, astack, env, cont, inv) ==
    [pc |-> pc, vars |-> regs, args |-> args, astack |-> astack, env |-> env,
     cont |-> cont, inv |-> inv]

\* func(env *Env) *Promise { return vm.exec(pc, vars, cont, nil, nil, env, cutParent) }
Frame(pc, regs, inv) == [pc |-> pc, vars |-> regs, inv |-> inv]

Logged(st, event) == [st EXCEPT !.log = Append(@, event)]

\* n calls of NewVariable: the variables, and the counter after them.
newVariables(st, n) == [i \in 1..n |-> Variable(st.n + i)]

\* Registers that would be made without counting them: the next call of
\* NewVariable returns them again.
registersShared(st, c) == [vars |-> newVariables(st, Len(c.vars)), st |-> st]

\* vars := make([]Variable, len(c.vars)); vars[i] = NewVariable()
registers(st, c) ==
    [vars |-> newVariables(st, Len(c.vars)), st |-> [st EXCEPT !.n = @ + Len(c.vars)]]

RECURSIVE execVars(_, _, _, _)
RECURSIVE callVars(_, _, _, _, _, _, _, _, _)

\* vm.Arrive with vm.unknown = unknownError
arriveVars(procs, name, args, cont, env, st, fuel) ==
    IF <<name, Len(args)>> \notin DOMAIN procs
    THEN Ran(<<>>, existenceError(<<name, Len(args)>>), st)
    ELSE callVars(procs, procs[<<name, Len(args)>>], 1, args, cont,
                  bind(env, varContext, piTerm(<<name, Len(args)>>)),
                  Logged([st EXCEPT !.calls = @ + 1],
                         [ev |-> "call", call |-> st.calls + 1, name |-> name,
                          args |-> args, env |-> env]),
                  st.calls + 1, fuel)

\* A loop of exec that would go on whatever the unification gave.
execUnifiedAlways(procs, mc, r, args, astack, st, fuel) ==
    execVars(procs, [mc EXCEPT !.pc = Tail(@), !.args = args, !.astack = astack], st, fuel)

\* env, ok = env.Unify(arg, t), and the loop of exec goes on while ok.
execUnified(procs, mc, r, args, astack, st, fuel) ==
    IF r.ok
    THEN execVars(procs, [mc EXCEPT !.pc = Tail(@), !.env = r.env, !.args = args,
                                    !.astack = astack], st, fuel)
    ELSE Ran(<<>>, NoErr, st)

\* The fresh arguments of GetFunctor and GetDict and the unification with
\* the compound made of them.
execGet(procs, mc, arg, compound, st, fuel) ==
    execUnified(procs, mc, unify(mc.env, arg, compound, FALSE, MaxDepth),
                compound.args, Append(mc.astack, [get |-> TRUE, args |-> Tail(mc.args)]),
                [st EXCEPT !.n = @ + Len(compound.args)], fuel)

\* The compound of PutFunctor and PutDict: its arguments are filled in by
\* the instructions up to Pop.
execPut(procs, mc, functor, st, fuel) ==
    execVars(procs, [mc EXCEPT !.pc = Tail(@), !.args = <<>>,
                               !.astack = Append(@, [get |-> FALSE, args |-> mc.args,
                                                     functor |-> functor])],
             st, fuel)

\* args, astack = astack[len(astack)-1], astack[:len(astack)-1]
popped(mc) ==
    LET top == mc.astack[Len(mc.astack)]
    IN  [mc EXCEPT !.pc = Tail(@),
                   !.astack = SubSeq(@, 1, Len(@) - 1),
                   !.args = IF top.get
                            THEN top.args
                            ELSE Append(top.args, Cmp(top.functor, mc.args))]

\* return cont(env)
execExit(procs, mc, st, fuel) ==
    IF mc.cont = <<>>
    THEN Ran(<<mc.env>>, NoErr, st)
    ELSE execVars(procs,
                  Machine(Head(mc.cont).pc, Head(mc.cont).vars, <<>>, <<>>, mc.env,
                          Tail(mc.cont), Head(mc.cont).inv),
                  st, fuel)

\* The case of the instruction at pc in the loop of exec.
execInstruction(procs, mc, st, fuel) ==
    LET op == Head(mc.pc)
        next == [mc EXCEPT !.pc = Tail(@)]
    IN  CASE op.op = "GetConst" ->
                execUnified(procs, mc, unify(mc.env, Head(mc.args), op.operand, FALSE, MaxDepth),
                            Tail(mc.args), mc.astack, st, fuel)
          [] op.op = "PutConst" ->
                execVars(procs, [next EXCEPT !.args = Append(@, op.operand)], st, fuel)
          [] op.op = "GetVar" ->
                execUnified(procs, mc,
                            unify(mc.env, Head(mc.args), mc.vars[op.operand + 1], FALSE, MaxDepth),
                            Tail(mc.args), mc.astack, st, fuel)
          [] op.op = "PutVar" ->
                execVars(procs, [next EXCEPT !.args = Append(@, mc.vars[op.operand + 1])],
                         st, fuel)
          [] op.op = "GetFunctor" ->
                execGet(procs, mc, Resolve(mc.env, Head(mc.args)),
                        Cmp(op.operand[1], newVariables(st, op.operand[2])), st, fuel)
          [] op.op = "GetDict" ->
                execGet(procs, mc, Head(mc.args), newDict(newVariables(st, op.operand)),
                        st, fuel)
          [] op.op = "PutFunctor" -> execPut(procs, mc, op.operand[1], st, fuel)
          [] op.op = "PutDict" -> execPut(procs, mc, atomDict, st, fuel)
          [] op.op = "Pop" -> execVars(procs, popped(mc), st, fuel)
          [] op.op = "Enter" ->
                execVars(procs, next,
                         Logged(st, [ev |-> "enter", inv |-> mc.inv, env |-> mc.env]), fuel)
          [] op.op = "Call" ->
                IF fuel = 0
                THEN Ran(<<>>, NoErr, st)
                ELSE arriveVars(procs, op.operand[1], mc.args,
                                <<Frame(Tail(mc.pc), mc.vars, mc.inv)>> \o mc.cont, mc.env,
                                Logged(st, [ev |-> "arrive", inv |-> mc.inv,
                                            name |-> op.operand[1], args |-> mc.args]),
                                fuel - 1)
          [] op.op = "Exit" ->
                execExit(procs, mc,
                         Logged(st, [ev |-> "exit", inv |-> mc.inv, env |-> mc.env]), fuel)

\* vm.exec(pc, vars, cont, args, astack, env, cutParent), from the state mc
\* of the machine and the counter and log st as they stand.
execVars(procs, mc, st, fuel) ==
    CHOOSE ran \in {execInstruction(procs, m, s, fuel) : m \in {mc}, s \in {st}} : TRUE

\* ks[i] of clauses.call: the clause c run on its own registers.
callTry(procs, c, i, args, cont, env, st, p, fuel) ==
    execVars(procs,
             Machine(c.bytecode, registers(st, c).vars, args, <<>>, env, cont,
                     Len(st.log) + 1),
             Logged(registers(st, c).st,
                    [ev |-> "try", call |-> p, clause |-> i,
                     vars |-> registers(st, c).vars, args |-> args, env |-> env,
                     raw |-> c.raw, slots |-> c.vars]),
             fuel)

\* What Force makes of ks[i] and of the alternatives after it: an error
\* ends the run, and else the alternatives after it are run.
callJoined(r, rest) == Ran(r.sols \o rest.sols, rest.err, rest.st)

\* clauses.call(vm, args, k, env): ks[i], from i on, as Force runs
\* Delay(ks...); p is the promise of the call.
callVars(procs, cs, i, args, cont, env, st, p, fuel) ==
    IF i > Len(cs)
    THEN Ran(<<>>, NoErr, st)
    ELSE CHOOSE ran \in
            {IF r.err # NoErr
             THEN r
             ELSE CHOOSE joined \in
                     {callJoined(r, rest) :
                         rest \in {callVars(procs, cs, i + 1, args, cont, env, r.st, p, fuel)}}
                     : TRUE
             : r \in {callTry(procs, cs[i], i, args, cont, env, st, p, fuel)}} : TRUE

\* vm.Arrive(name, args, Success, env) forced to its end, with n the
\* counter of NewVariable.
solveVars(procs, goal, env, n) ==
    arriveVars(procs, piArgsResolved(goal).pi[1], piArgsResolved(goal).args, <<>>, env,
               [n |-> n, calls |-> 0, log |-> <<>>], MaxFuel)

(***************************************************************************)
(* SpecRun: a procedure h/2 of up to MaxClauses clauses is compiled beside *)
(* the procedure q/1, and a goal h(S, T) is called and forced to its end.  *)
(***************************************************************************)
MaxClauses == 2

\* A clause of the database: the term it was compiled from, its variables
\* and its instructions.
RunClause(t) ==
    [raw |-> t,
     vars |-> compileTerm(t, NewEnv, ParsedVariables).cs[1].vars,
     bytecode |-> compileTerm(t, NewEnv, ParsedVariables).cs[1].bytecode]

HClauses ==
    {Rule(Cmp("h", <<a, Y>>), Cmp("q", <<Y>>)),
     Cmp("h", <<X, X>>),
     Rule(Cmp("h", <<f(X), g(X, Y)>>), Conj(Cmp("q", <<X>>), Cmp("q", <<Y>>))),
     Rule(Cmp("h", <<X, b>>), Cmp("q", <<X>>)),
     Cmp("h", <<f(a), Integer(1)>>)}

RECURSIVE ClauseLists(_)
ClauseLists(n) ==
    IF n = 0
    THEN {<<>>}
    ELSE {<<t>> \o rest : t \in HClauses, rest \in ClauseLists(n - 1)}

RunPrograms == UNION {ClauseLists(n) : n \in 1..MaxClauses}

\* The database with the clauses ts of h/2.
RECURSIVE RunClauses(_)
RunClauses(ts) ==
    IF ts = <<>> THEN <<>> ELSE <<RunClause(Head(ts))>> \o RunClauses(Tail(ts))

RunDatabase(ts) ==
    (<<"h", 2>> :> RunClauses(ts))
      @@ (<<"q", 1>> :> <<RunClause(Cmp("q", <<b>>)), RunClause(Cmp("q", <<f(Z)>>))>>)

RunArgs == {X, Y, a, b, Integer(1), f(X), f(a), g(a, b), g(Y, Y), g(X, f(Y))}

RunEnvs == {NewEnv, bind(NewEnv, Y.v, f(X))}

DoRun ==
    /\ ~rnLast.made
    /\ \E ts \in RunPrograms, s \in RunArgs, t \in RunArgs, env \in RunEnvs :
          \E procs \in {RunDatabase(ts)} :
             rnLast' = [made |-> TRUE, program |-> ts, goal |-> Cmp("h", <<s, t>>),
                        env |-> env,
                        got |-> solveVars(procs, Cmp("h", <<s, t>>), env,
                                          ParsedVariables)]
    /\ UNCHANGED <<cpLast, byteVars, resolveVars, liveVars, ntLast, vmUnknown, ukLast, coLast,
                   dictVars, stackVars>>

InitRun ==
    /\ EnvIdle
    /\ UnifyIdle
    /\ ForceIdle
    /\ LaterIdle

NextRun == DoRun

SpecRun == InitRun /\ [][NextRun]_vars

(***************************************************************************)
(* The clauses of a procedure as the slices of Go that they are            *)
(* (builtin.go, clause.go): a slice is a backing array with a length, the  *)
(* capacity is the length of the array, and two slices on one array see    *)
(* each other's writes.  assertz and asserta merge with append, Retract    *)
(* removes in place with append(cs[:j], cs[j+1:]...), and clauses.call     *)
(* copies each clause into the closure of its alternative.                 *)
(***************************************************************************)
Slice(arr, len) == [arr |-> arr, len |-> len]

\* clause{}
zeroClause == [id |-> 0, raw |-> nilTerm]

\* The clauses a slice holds.
sliceClauses(arrays, cs) == SubSeq(arrays[cs.arr], 1, cs.len)

Merged(arrays, cs) == [arrays |-> arrays, cs |-> cs]

\* append(existing, new...) of Assertz for the one clause c that compile
\* returns: in place when the capacity allows, and else in a new array of
\* the capacity grown that append chooses.
appendExisting(arrays, existing, c, grown) ==
    IF existing.len < Len(arrays[existing.arr])
    THEN Merged([arrays EXCEPT ![existing.arr][existing.len + 1] = c],
                Slice(existing.arr, existing.len + 1))
    ELSE Merged(Append(arrays,
                       sliceClauses(arrays, existing) \o <<c>>
                          \o [i \in 1..(grown - existing.len - 1) |-> zeroClause]),
                Slice(Len(arrays) + 1, existing.len + 1))

\* append(new, existing...) of Asserta: new is []clause{c}, of capacity 1.
appendNew(arrays, c, existing, grown) ==
    IF existing.len = 0
    THEN Merged(Append(arrays, <<c>>), Slice(Len(arrays) + 1, 1))
    ELSE Merged(Append(arrays,
                       <<c>> \o sliceClauses(arrays, existing)
                          \o [i \in 1..(grown - existing.len - 1) |-> zeroClause]),
                Slice(Len(arrays) + 1, existing.len + 1))

\* cs, cs[len(cs)-1] = append(cs[:j], cs[j+1:]...), clause{} with j counted
\* from 0: the clauses after j move down in the array of cs and the last
\* place is cleared.
removeInPlace(arrays, cs, j) ==
    Merged([arrays EXCEPT ![cs.arr] =
               [i \in 1..Len(@) |->
                   IF i > j /\ i < cs.len THEN @[i + 1]
                   ELSE IF i = cs.len THEN zeroClause
                   ELSE @[i]]],
           Slice(cs.arr, cs.len - 1))

\* clauses.call up to Delay(ks...): i, c := i, cs[i] copies the clause of
\* each alternative when the call is made.
LiveCall(arrays, cs) ==
    [made |-> TRUE, active |-> TRUE, cs |-> cs, ks |-> sliceClauses(arrays, cs),
     next |-> 1, tried |-> <<>>, changed |-> FALSE]

\* An alternative that would read cs[i] when it is run.
callClauseLate(arrays, made, i) ==
    IF i <= Len(arrays[made.cs.arr]) THEN arrays[made.cs.arr][i] ELSE zeroClause

\* The clause c that ks[i] runs.
callClause(arrays, made, i) == made.ks[i]

\* Retract up to Delay(ks...): raw := Rulify(c.raw, env) is taken from each
\* clause when retract is called; cs and deleted are shared by the closures.
LiveRetract(arrays, cs, t) ==
    [active |-> TRUE, t |-> Rulify(t, NewEnv), cs |-> cs, deleted |-> 0, next |-> 1,
     raws |-> [i \in 1..cs.len |-> Rulify(arrays[cs.arr][i].raw, NewEnv)]]

\* ks[i] of Retract unifies.
retractMatches(rt, i) == unify(NewEnv, rt.t, rt.raws[i], FALSE, MaxDepth).ok

(***************************************************************************)
(* SpecLive: the procedure f/1 with the clauses f(a) and f(b).  A call of  *)
(* f(X) is made and backtracked into, alternative after alternative; in    *)
(* its continuation clauses are asserted and a retract is called and       *)
(* backtracked into.  What is pushed later is retried first: the call is   *)
(* backtracked into when the retract made after it has no alternative      *)
(* left.                                                                   *)
(***************************************************************************)
MaxLive == 1

LiveArgs == {a, b}

LiveRetractTerms == {f(X), f(a), f(b)}

LiveChanged == IF lvCall.active THEN [lvCall EXCEPT !.changed = TRUE] ELSE lvCall

\* The capacities that append may choose for need clauses.
GrownTo(need) == {need, need + 1}

DoLiveAssertz ==
    /\ lvDb.nextId <= MaxLive
    /\ \E arg \in LiveArgs, grown \in GrownTo(lvDb.proc.len + 1) :
          LET r == appendExisting(lvDb.arrays, lvDb.proc,
                                  [id |-> lvDb.nextId + 2, raw |-> f(arg)], grown)
          IN  lvDb' = [arrays |-> r.arrays, proc |-> r.cs, nextId |-> lvDb.nextId + 1]
    /\ lvCall' = LiveChanged
    /\ UNCHANGED lvRetract
    /\ UNCHANGED <<cpLast, byteVars, resolveVars, rnLast, ntLast, vmUnknown, ukLast, coLast,
                   dictVars, stackVars>>

DoLiveAsserta ==
    /\ lvDb.nextId <= MaxLive
    /\ \E arg \in LiveArgs, grown \in GrownTo(lvDb.proc.len + 1) :
          LET r == appendNew(lvDb.arrays, [id |-> lvDb.nextId + 2, raw |-> f(arg)],
                             lvDb.proc, grown)
          IN  lvDb' = [arrays |-> r.arrays, proc |-> r.cs, nextId |-> lvDb.nextId + 1]
    /\ lvCall' = LiveChanged
    /\ UNCHANGED lvRetract
    /\ UNCHANGED <<cpLast, byteVars, resolveVars, rnLast, ntLast, vmUnknown, ukLast, coLast,
                   dictVars, stackVars>>

\* retract(T) is called: a retract still in progress is given up.
DoLiveRetract ==
    /\ \E t \in LiveRetractTerms : lvRetract' = LiveRetract(lvDb.arrays, lvDb.proc, t)
    /\ UNCHANGED <<lvDb, lvCall>>
    /\ UNCHANGED <<cpLast, byteVars, resolveVars, rnLast, ntLast, vmUnknown, ukLast, coLast,
                   dictVars, stackVars>>

\* The retract is backtracked into: its next alternative is run.
DoLiveRetractNext ==
    /\ lvRetract.active
    /\ IF lvRetract.next > Len(lvRetract.raws)
       THEN /\ lvRetract' = NoLiveRetract
            /\ UNCHANGED <<lvDb, lvCall>>
       ELSE IF retractMatches(lvRetract, lvRetract.next)
       THEN LET r == removeInPlace(lvDb.arrays, lvRetract.cs,
                                   (lvRetract.next - 1) - lvRetract.deleted)
            IN  /\ lvDb' = [lvDb EXCEPT !.arrays = r.arrays, !.proc = r.cs]
                /\ lvRetract' = [lvRetract EXCEPT !.cs = r.cs, !.deleted = @ + 1,
                                                  !.next = @ + 1]
                /\ lvCall' = LiveChanged
       ELSE /\ lvRetract' = [lvRetract EXCEPT !.next = @ + 1]
            /\ UNCHANGED <<lvDb, lvCall>>
    /\ UNCHANGED <<cpLast, byteVars, resolveVars, rnLast, ntLast, vmUnknown, ukLast, coLast,
                   dictVars, stackVars>>

\* f(X) is called: Arrive takes the clauses of the procedure as they are.
DoLiveCall ==
    /\ ~lvCall.active
    /\ ~lvRetract.active
    /\ lvCall' = LiveCall(lvDb.arrays, lvDb.proc)
    /\ UNCHANGED <<lvDb, lvRetract>>
    /\ UNCHANGED <<cpLast, byteVars, resolveVars, rnLast, ntLast, vmUnknown, ukLast, coLast,
                   dictVars, stackVars>>

\* The call is backtracked into: its next alternative is run, and after
\* the last one the call has failed.
DoLiveCallNext ==
    /\ lvCall.active
    /\ ~lvRetract.active
    /\ lvCall' = IF lvCall.next > Len(lvCall.ks)
                 THEN [lvCall EXCEPT !.active = FALSE]
                 ELSE [lvCall EXCEPT
                          !.tried = Append(@, callClause(lvDb.arrays, lvCall, lvCall.next)),
                          !.next = @ + 1]
    /\ UNCHANGED <<lvDb, lvRetract>>
    /\ UNCHANGED <<cpLast, byteVars, resolveVars, rnLast, ntLast, vmUnknown, ukLast, coLast,
                   dictVars, stackVars>>

InitLive ==
    /\ EnvIdle
    /\ UnifyIdle
    /\ ForceIdle
    /\ LaterIdle

NextLive ==
    \/ DoLiveAssertz
    \/ DoLiveAsserta
    \/ DoLiveRetract
    \/ DoLiveRetractNext
    \/ DoLiveCall
    \/ DoLiveCallNext

SpecLive == InitLive /\ [][NextLive]_vars

(***************************************************************************)
(* SpecCatch: Force on queries  q, catch(G, C, R), K  and                  *)
(* q, catch((catch(G, C, R), K), V, t)  against the database of SpecVM.    *)
(* The clause of p throws ball, the goal K after the catch throws after    *)
(* and the recovery R throws again, so that an error tells where it was    *)
(* raised; q leaves a choice point before the catch and in G.              *)
(***************************************************************************)
ProtectedGoals == {NewAtom("p"), Conj(NewAtom("q"), NewAtom("p"))}

Catchers == {NewAtom("ball"), Variable(3)}

Recoveries == {NewAtom("q"), NewAtom("nope"), throwGoal(NewAtom("again"))}

AfterGoals == {NewAtom("t"), NewAtom("nope"), throwGoal(NewAtom("after"))}

InnerCatches ==
    {catchGoal(goal, catcher, rec) :
        goal \in ProtectedGoals, catcher \in Catchers, rec \in Recoveries}

CatchQueries ==
    {Conj(NewAtom("q"), Conj(inner, after)) : inner \in InnerCatches, after \in AfterGoals}
    \cup {Conj(NewAtom("q"), catchGoal(Conj(inner, after), Variable(2), NewAtom("t"))) :
             inner \in InnerCatches, after \in AfterGoals}

CatchBodies ==
    {throwGoal(NewAtom("ball")), Conj(NewAtom("q"), throwGoal(NewAtom("ball"))),
     NewAtom("q")}

InitCatch ==
    /\ EnvIdle
    /\ LaterIdle
    /\ UnifyIdle
    /\ fInput \in [query : CatchQueries, body : CatchBodies]
    /\ procedures = Database(fInput.body)
    /\ ForceStart(Call(PromiseHeap0, fInput.query, Success, NewEnv).h,
                  Call(PromiseHeap0, fInput.query, Success, NewEnv).p)

NextCatch == ForcePoll \/ ForceBody

SpecCatch == InitCatch /\ [][NextCatch]_vars

(***************************************************************************)
(* What the database claims are stated with.                               *)
(***************************************************************************)
HeadOf(t) == IF IsOp(t, ":-") THEN t.args[1] ELSE t

Callable(t) == t.t = "atom" \/ IsCompound(t)

IndicatorOf(t) == IF t.t = "atom" THEN <<t.a, 0>> ELSE <<t.f, Len(t.args)>>

\* The last built-in called was given a procedure to work on.
HasTarget ==
    \/ dbLast.op \in {"assertz", "asserta", "retract", "redo", "call"}
       /\ Callable(dbLast.t) /\ Callable(HeadOf(dbLast.t))
    \/ dbLast.op = "abolish" /\ IsOp(dbLast.t, "/")
       /\ dbLast.t.args[1].t = "atom" /\ dbLast.t.args[2].t = "int"

Target ==
    IF dbLast.op = "abolish"
    THEN <<dbLast.t.args[1].a, dbLast.t.args[2].i>>
    ELSE IndicatorOf(HeadOf(dbLast.t))

ClausesOf(procs, pi) == IF pi \in DOMAIN procs THEN procs[pi].cs ELSE <<>>

Ids(cs) == [i \in 1..Len(cs) |-> cs[i].id]

\* Every procedure but pi is what it was before the last call.
OthersKept(pi) ==
    /\ DOMAIN procedures \ {pi} = DOMAIN dbLast.before \ {pi}
    /\ \A key \in DOMAIN procedures \ {pi} : procedures[key] = dbLast.before[key]

Matching(c, goal) == unify(NewEnv, goal, HeadOf(c.raw), FALSE, MaxDepth).ok

Without(s, j) == [i \in 1..(Len(s) - 1) |-> IF i < j THEN s[i] ELSE s[i + 1]]

\* C11: the second engine, which started in the same state and was given the
\* same calls in the same order, returned for the last call what the first
\* engine returned: the same solutions in the same order, the same error.
C11_SameQuerySameResults ==
    dbLast.op # "none" =>
        /\ dbTwin.res = dbLast.res
        /\ dbTwin.err = dbLast.err
        /\ dbTwin.sols = dbLast.sols
        /\ dbTwin.end = dbLast.end

C11_Witness ==
    /\ dbLast.op \in {"call", "current_predicate"}
    /\ dbTwin.procs = procedures
    /\ dbLast.end = NoErr
    /\ Len(dbLast.sols) >= 2
    /\ Len(dbTwin.sols) >= 2

\* C12: assertz leaves the clauses of the procedure followed by the new one,
\* asserta the new one followed by them, and the solutions of a call are
\* those of the clauses that match the goal, in the order of the clauses.
C12_ClausesInInsertionOrder ==
    /\ dbLast.op = "assertz" /\ dbLast.res = "k" =>
          /\ Ids(ClausesOf(procedures, Target))
                = Ids(ClausesOf(dbLast.before, Target)) \o <<dbNextId - 1>>
          /\ SubSeq(procedures[Target].cs, 1, Len(procedures[Target].cs) - 1)
                = ClausesOf(dbLast.before, Target)
          /\ procedures[Target].cs[Len(procedures[Target].cs)].raw = dbLast.t
          /\ OthersKept(Target)
    /\ dbLast.op = "asserta" /\ dbLast.res = "k" =>
          /\ Ids(ClausesOf(procedures, Target))
                = <<dbNextId - 1>> \o Ids(ClausesOf(dbLast.before, Target))
          /\ Tail(procedures[Target].cs) = ClausesOf(dbLast.before, Target)
          /\ Head(procedures[Target].cs).raw = dbLast.t
          /\ OthersKept(Target)
    /\ dbLast.op = "call" /\ dbLast.end = NoErr =>
          /\ [i \in 1..Len(dbLast.sols) |-> dbLast.sols[i].id]
                = Ids(SelectSeq(ClausesOf(procedures, Target),
                                LAMBDA c : Matching(c, dbLast.t)))
          /\ \A i \in 1..Len(dbLast.sols) :
                \E c \in {procedures[Target].cs[j] : j \in 1..Len(procedures[Target].cs)} :
                    c.id = dbLast.sols[i].id /\ HeadOf(c.raw) = dbLast.sols[i].goal

C12_Witness ==
    /\ dbLast.op = "call"
    /\ dbLast.end = NoErr
    /\ Len(dbLast.sols) = 3
    /\ dbLast.sols[1].id >= FirstId
    /\ dbLast.sols[2].id < dbLast.sols[3].id

\* C13: a solution of retract(T) leaves the clauses that the procedure had
\* before it, in their order, without exactly one of them: the clause that
\* the retract tried, whose rule form unifies with T.  No other procedure
\* changes.
C13_RetractRemovesOneClause ==
    dbLast.op \in {"retract", "redo"} /\ dbLast.res = "k" =>
        /\ Target \in DOMAIN dbLast.before
        /\ Target \in DOMAIN procedures
        /\ \E j \in 1..Len(dbLast.before[Target].cs) :
              /\ dbLast.before[Target].cs[j].id = dbLast.removed.id
              /\ unify(NewEnv, rulifyResolved(dbLast.t),
                       rulifyResolved(dbLast.before[Target].cs[j].raw),
                       FALSE, MaxDepth).ok
              /\ procedures[Target].cs = Without(dbLast.before[Target].cs, j)
        /\ OthersKept(Target)

C13_Witness ==
    /\ dbLast.op = "redo"
    /\ dbLast.res = "k"
    /\ dbLast.removed.deleted >= 1
    /\ dbLast.removed.asserted
    /\ Target \in DOMAIN dbLast.before
    /\ Len(dbLast.before[Target].cs) >= 2

\* C14: assertz, asserta, retract and abolish of a static or built-in
\* procedure return the error permission_error(modify, static_procedure,
\* Name/Arity) and leave every procedure as it was.
C14_StaticProceduresAreKept ==
    /\ dbLast.op \in {"assertz", "asserta", "retract", "abolish"}
    /\ HasTarget
    /\ Target \in DOMAIN dbLast.before
    /\ dbLast.before[Target].kind \in {"static", "builtin"}
    => /\ dbLast.res = "error"
       /\ dbLast.err.e = "exception"
       /\ dbLast.err.term.f = "error"
       /\ dbLast.err.term.args[1]
             = Cmp("permission_error",
                   <<NewAtom("modify"), NewAtom("static_procedure"),
                     Cmp("/", <<NewAtom(Target[1]), Integer(Target[2])>>)>>)
       /\ procedures = dbLast.before

C14_Witness ==
    /\ dbLast.op = "asserta"
    /\ HasTarget
    /\ Target = <<"true", 0>>
    /\ dbLast.before[Target].kind = "builtin"
    /\ dbLast.res = "error"
    /\ dbRetract.active

\* C15: current_predicate(P) with P unbound yields the indicators of the
\* user-defined procedures in the order in which they were first inserted.
C15_CurrentPredicateInInsertionOrder ==
    dbLast.op = "current_predicate" /\ IsVar(dbLast.t) =>
        dbLast.sols
            = [i \in 1..Len(SelectSeq(dbOrder, LAMBDA key : key \in UserDefined(procedures)))
                 |-> piTerm(SelectSeq(dbOrder, LAMBDA key : key \in UserDefined(procedures))[i])]

C15_Witness ==
    /\ dbLast.op = "current_predicate"
    /\ IsVar(dbLast.t)
    /\ Len(dbLast.sols) = 3
    /\ dbLast.res = "delay"

C17_CapRefusesCreation ==
    varLast.op = "NewVariable" =>
        /\ varLast.max > 0 /\ varLast.count >= varLast.max => varLast.refused
        /\ varLast.max = 0 => ~varLast.refused

C17_Witness ==
    /\ varLast.op = "NewVariable"
    /\ varLast.max > 0
    /\ varLast.count >= varLast.max
    /\ varLast.created >= varLast.max
    /\ ~varLast.refused

\* The environment the last bind returned.
BoundEnv == [h |-> envHeap, r |-> envRoots[Len(envRoots)]]

\* What lookup returned in the environment the last bind was applied to,
\* as recorded when that environment was made.
BaseTable ==
    IF envLast.base = Nil THEN LookupTable(<<>>, Nil)
    ELSE envTables[CHOOSE i \in 1..Len(envRoots) : envRoots[i] = envLast.base]

\* C18: in the environment returned by bind(v, t), lookup(v) is t, lookup(w)
\* of every other variable w is what it was in the environment bind was
\* applied to, and distinct variables have distinct tree keys.
C18_BindChangesOnlyItsVariable ==
    /\ \A v, w \in EnvVariables : v # w => newEnvKey(v) # newEnvKey(w)
    /\ envRoots # <<>> =>
          /\ lookup(BoundEnv, envLast.v) = Found(envLast.t)
          /\ \A w \in EnvVariables \ {envLast.v} :
                lookup(BoundEnv, w) = BaseTable[w]

C18_Witness ==
    /\ envRoots # <<>>
    /\ envLast.base # Nil
    /\ BaseTable[envLast.v].ok
    /\ BaseTable[envLast.v].t # envLast.t
    /\ lookup(BoundEnv, envLast.v) = Found(envLast.t)
    /\ \E w \in EnvVariables \ {envLast.v, varContext} : BaseTable[w].ok

\* The place of a term's variant in Variable < Float < Integer < Atom <
\* custom atomic terms < Compound.
VariantRank(x) ==
    CASE x.t = "var" -> 1
      [] x.t = "float" -> 2
      [] x.t = "int" -> 3
      [] x.t = "atom" -> 4
      [] x.t = "custom" -> 5
      [] OTHER -> 6

\* C19: Compare ranks the variants Variable < Float < Integer < Atom <
\* custom atomic < Compound, gives 0 for a term and itself, opposite signs
\* for swapped arguments, is transitive, and orders two unbound variables by
\* their identities.
C19_CompareIsTotalOrder ==
    cmpLast.made =>
        /\ cmpLast.ss = 0
        /\ cmpLast.st = -cmpLast.ts
        /\ cmpLast.st < 0 /\ cmpLast.tu < 0 => cmpLast.su < 0
        /\ VariantRank(cmpLast.rs) < VariantRank(cmpLast.rt) => cmpLast.st < 0
        /\ IsVar(cmpLast.rs) /\ IsVar(cmpLast.rt) =>
              cmpLast.st = Sign(cmpLast.rs.v - cmpLast.rt.v)

C19_Witness ==
    /\ cmpLast.made
    /\ cmpSetup > 0
    /\ IsVar(cmpLast.s) /\ cmpLast.rs.t = "float"
    /\ cmpLast.t.t = "int"
    /\ IsCompound(cmpLast.u)
    /\ cmpLast.st < 0 /\ cmpLast.tu < 0 /\ cmpLast.su < 0

\* The function a repeat promise at the root invokes again and again.
RepeatChild == Children(fInput, <<>>)[1]

\* C20: Force on a repeat promise ends only with true, with an error that no
\* catch recovered or with the cancellation, and a child that first succeeds
\* on its n-th invocation was invoked exactly n times.
C20_RepeatNeverExhausted ==
    fInput.k = "repeat" =>
        /\ fPc \in {"done", "panicked"} =>
              /\ fPc = "done"
              /\ fResult.ok \/ fResult.err # NoErr
        /\ fInput.c[1].k = "count" =>
              /\ Invocations(fLog, RepeatChild) <= fInput.c[1].n
              /\ fPc = "done" /\ fResult.ok =>
                    Invocations(fLog, RepeatChild) = fInput.c[1].n

C20_Witness ==
    /\ fInput = TRepeat(TCount(2))
    /\ fPc = "done"
    /\ fResult.ok
    /\ Invocations(fLog, RepeatChild) = 2

\* How many children the Forces before the current one had drawn.
DrawnBefore == IF rfRuns = <<>> THEN 0 ELSE rfRuns[Len(rfRuns)].drawn

\* The NextFunc had reported the end before the current Force began.
EndedBefore == rfRuns # <<>> /\ rfRuns[Len(rfRuns)].ended

\* Every child is a promise that is true or false.
IsFlat(t) == \A i \in 1..Len(t.c) : t.c[i].k = "Bool"

\* The children are drawn one at a time in their order, each once over all
\* the Forces, and a Force that returns true has drawn none after the first
\* true child that was left.
DrawnOnDemand ==
    /\ \A i \in 1..Len(RootDrawn(fLog)) : RootDrawn(fLog)[i] = <<i>>
    /\ IsFlat(fInput) /\ fPc = "done" /\ fResult.ok =>
          /\ Len(RootDrawn(fLog)) > DrawnBefore
          /\ fInput.c[Len(RootDrawn(fLog))].ok
          /\ \A i \in (DrawnBefore + 1)..(Len(RootDrawn(fLog)) - 1) : ~fInput.c[i].ok

\* A Force that began after the end returns (false, nil) and calls no NextFunc.
NothingAfterEnd ==
    /\ fNext = rfRuns[Len(rfRuns)].next
    /\ fPc = "done" => fResult = [ok |-> FALSE, err |-> NoErr]

\* C21 (as stated): children are drawn on demand, a later Force goes on with
\* the next child not yet drawn, and after the NextFunc reported the end
\* every later Force returns (false, nil) without calling it.
C21_ForceDrawsOnDemand ==
    fInput.k = "Delay" =>
        /\ DrawnOnDemand
        /\ EndedBefore => NothingAfterEnd

\* C21 (amended): the same, the Force after the end returning (false, nil),
\* or (false, ctx.Err()) when it finds its context cancelled.
C21_ForceDrawsOnDemandUnlessCancelled ==
    fInput.k = "Delay" =>
        /\ DrawnOnDemand
        /\ EndedBefore =>
              /\ fNext = rfRuns[Len(rfRuns)].next
              /\ fPc = "done" =>
                    \/ fResult = [ok |-> FALSE, err |-> NoErr]
                    \/ fCancelled /\ fResult = [ok |-> FALSE, err |-> Canceled]

C21_Witness ==
    /\ fInput = TestSeq
    /\ Len(rfRuns) >= 3
    /\ rfRuns[1].drawn = 1 /\ rfRuns[2].drawn = 5
    /\ ~rfRuns[Len(rfRuns) - 1].ended
    /\ EndedBefore
    /\ fPc = "done"
    /\ ~fCancelled
    /\ fResult = [ok |-> FALSE, err |-> NoErr]

\* The last operation was on two integers and its exact result is not an
\* int64.
Overflows ==
    /\ arLast.made
    /\ arLast.x.t = "int" /\ arLast.y.t = "int"
    /\ Exact(arLast.op, arLast.x.i, arLast.y.i) \notin MinInt..MaxInt

IsEvaluationError(err) ==
    /\ err.e = "exception"
    /\ err.term.f = "error"
    /\ IsCompound(err.term.args[1])
    /\ err.term.args[1].f = "evaluation_error"

\* C22: an integer +, - or * whose exact result is outside the range of the
\* integers raises an evaluation error and returns no wrapped value.
C22_OverflowRaisesEvaluationError ==
    Overflows => IsEvaluationError(arLast.res.err)

C22_Witness ==
    /\ Overflows
    /\ arLast.op = "+" /\ arLast.x.i = MaxInt /\ arLast.y.i = 1
    /\ arLast.res = Evaluated(Integer(MinInt))

\* The run i ended with an error of the hook.
FailedRun(i) ==
    /\ hkRuns[i][Len(hkRuns[i])].ev = "hook"
    /\ hkRuns[i][Len(hkRuns[i])].err # NoErr

\* In every promise function the installed hook is called once before each
\* instruction, with that instruction, and an instruction is executed only
\* after the hook returned nil for it; after an error of the hook the
\* function executes nothing more.
HookBeforeEach ==
    \A i \in 1..Len(hkRuns) : \A j \in 1..Len(hkRuns[i]) :
        /\ hkRuns[i][j].ev = "exec" /\ hkRuns[i][j].hooked =>
              /\ j > 1
              /\ hkRuns[i][j - 1] = [ev |-> "hook", op |-> hkRuns[i][j].op,
                                     err |-> NoErr, called |-> hkRuns[i][j - 1].called]
        /\ hkRuns[i][j].ev = "exec" /\ ~hkRuns[i][j].hooked =>
              j = 1 \/ hkRuns[i][j - 1].ev = "exec"
        /\ hkRuns[i][j].ev = "hook" =>
              IF hkRuns[i][j].err = NoErr
              THEN j < Len(hkRuns[i]) /\ hkRuns[i][j + 1].ev = "exec"
              ELSE j = Len(hkRuns[i])

\* Since the last InstallHook or ClearHook: with a hook every instruction
\* went through all its functions, without one the hook was not called.
HookAsInstalled ==
    \A i \in (hkMark + 1)..Len(hkRuns) : \A j \in 1..Len(hkRuns[i]) :
        IF vmHook = NoHook
        THEN hkRuns[i][j].ev = "exec" /\ ~hkRuns[i][j].hooked
        ELSE /\ hkRuns[i][j].ev = "exec" => hkRuns[i][j].hooked
             /\ hkRuns[i][j].ev = "hook" /\ hkRuns[i][j].err = NoErr =>
                   hkRuns[i][j].called = Len(vmHook.fs)

\* The query ended with the error the hook returned in run i, and nothing
\* was executed after it.
EndsWithHookError(i) ==
    /\ i = Len(hkRuns)
    /\ fPc = "done" =>
          fResult = [ok |-> FALSE, err |-> hkRuns[i][Len(hkRuns[i])].err]

\* C23 (as stated): the installed hook is called exactly once before each
\* instruction executed, in order, with its opcode and operand; when it
\* returns an error the instruction and the later ones of the clause are
\* not executed and the query ends with that error; after ClearHook it is
\* not called.
C23_HookRunsBeforeEachInstruction ==
    /\ HookBeforeEach
    /\ HookAsInstalled
    /\ \A i \in 1..Len(hkRuns) : FailedRun(i) => EndsWithHookError(i)

\* C23, the part that holds: the same, the query ending with the hook's error
\* unless a catch/3 recovers that error.
C23_HookRunsBeforeEachInstructionUnlessCaught ==
    /\ HookBeforeEach
    /\ HookAsInstalled
    /\ \A i \in 1..Len(hkRuns) :
          FailedRun(i) =>
              \/ EndsWithHookError(i)
              \/ i \in hkCaught
              \/ i = Len(hkRuns) /\ fPc # "done"

\* A catch/3 recovered the error of the hook, its recovery goal was executed
\* and the query succeeded.
C23_Witness ==
    /\ fPc = "done"
    /\ fResult = [ok |-> TRUE, err |-> NoErr]
    /\ \E i \in hkCaught : i < Len(hkRuns)

\* C24: a native predicate registered with arity n and called with another
\* number of arguments yields an error that reports n and the arguments, and
\* the native function is not invoked; with n arguments it is invoked with
\* them.
C24_WrongArityIsAnError ==
    ntLast.made =>
        IF Len(ntLast.args) # ntLast.arity
        THEN /\ ntLast.got.err = wrongNumberOfArgumentsError(ntLast.arity, ntLast.args)
             /\ ~ntLast.got.invoked
        ELSE /\ ntLast.got.err = NoErr
             /\ ntLast.got.invoked
             /\ ntLast.got.passed = ntLast.args

\* foo/1 called with two arguments.
C24_Witness ==
    /\ ntLast.made
    /\ ntLast.arity = 1
    /\ ntLast.args = <<NewAtom("a"), NewAtom("b")>>
    /\ ~ntLast.got.invoked
    /\ ntLast.got.err.expected = 1

\* Arrive was called for a procedure that is not in vm.procedures.
ArrivedUnknown ==
    /\ ukLast.made
    /\ <<ukLast.name, Len(ukLast.args)>> \notin DOMAIN procedures

\* The promise Arrive returned.
ArrivePromise == ukLast.got.h[ukLast.got.p]

\* No instruction was executed, so neither a procedure nor the continuation
\* ran, and the promise has no function that would run them later.
NothingRan ==
    /\ ~ukLast.got.panic
    /\ ArrivePromise.delayed = NoFunc
    /\ \A i \in 1..Len(ukLast.got.trace) : ukLast.got.trace[i].ev = "unknown"

\* C25: Arrive for an unknown procedure runs no procedure and does not call
\* the continuation; with unknown = error the promise carries
\* existence_error(procedure, Name/Arity), with fail it fails, with warning
\* the Unknown callback is called once with the name and the arguments and
\* the promise fails.
C25_UnknownProcedure ==
    ArrivedUnknown =>
        /\ NothingRan
        /\ vmUnknown = "error" =>
              /\ ArrivePromise = Error(existenceError(<<ukLast.name, Len(ukLast.args)>>))
              /\ ukLast.got.trace = <<>>
        /\ vmUnknown = "fail" =>
              /\ ukLast.got.p = Bool(FALSE)
              /\ ukLast.got.trace = <<>>
        /\ vmUnknown = "warning" =>
              /\ ukLast.got.p = Bool(FALSE)
              /\ ukLast.got.trace = <<UnknownEvent(ukLast.name, ukLast.args, NewEnv)>>

\* u(a) under unknown = warning, with the rest of a clause as continuation.
C25_Witness ==
    /\ ArrivedUnknown
    /\ vmUnknown = "warning"
    /\ ukLast.name = "u"
    /\ ukLast.args = <<NewAtom("a")>>
    /\ ukLast.k # Success
    /\ Len(ukLast.got.trace) = 1

\* The goal of the last call, without its qualifiers, has no solution: the
\* inner Force ends with (false, nil) and the continuation was never called.
GoalHasNoSolution ==
    /\ coLast.made
    /\ ~IsVar(coLast.goal)
    /\ goalSolutions(CollectDb,
                     IF coLast.op = "bagof" THEN collectionBody(coLast.goal)
                     ELSE coLast.goal, NewEnv) = NoSolutions

\* The third argument can be the empty list.
TakesEmptyList == IsVar(coLast.instances) \/ coLast.instances = atomEmptyList

\* C26: when the goal has no solution, findall(T, G, L) calls its
\* continuation exactly once, with L = [], and bagof(T, G, L) fails without
\* calling its continuation.
C26_NoSolutionFindallEmptyBagofFails ==
    GoalHasNoSolution =>
        /\ coLast.got.err = NoErr
        /\ coLast.op = "findall" /\ TakesEmptyList =>
              /\ Len(coLast.got.sols) = 1
              /\ Resolve(coLast.got.sols[1].env, coLast.instances) = atomEmptyList
        /\ coLast.op = "findall" /\ ~TakesEmptyList => coLast.got.sols = <<>>
        /\ coLast.op = "bagof" => coLast.got.sols = <<>>

C26_WitnessFindall ==
    /\ GoalHasNoSolution
    /\ coLast.op = "findall"
    /\ coLast.goal = fOf(NewAtom("c"))
    /\ coLast.instances = VarL
    /\ Len(coLast.got.sols) = 1

\* Both operations are exercised on goals with solutions too.
C26_Witness ==
    /\ GoalHasNoSolution
    /\ coLast.op = "bagof"
    /\ coLast.goal = Cmp("^", <<Variable(3), Cmp("g", <<Variable(2), NewAtom("c")>>)>>)
    /\ coLast.instances = VarL
    /\ coLast.got = NoSolutions

\* The keys and the pairs of a dict, read position by position.
KeysOf(d) == {DictKeyAt(d, i) : i \in 0..(DictLen(d) - 1)}

PairsOf(d) == {<<DictKeyAt(d, i), DictValueAt(d, i)>> : i \in 0..(DictLen(d) - 1)}

StrictlyAscending(d) ==
    \A i \in 0..(DictLen(d) - 2) : AtomLess(DictKeyAt(d, i), DictKeyAt(d, i + 1))

\* A well-formed dict: an odd number of arguments, atoms as keys.
WellFormed(d) ==
    /\ IsDict(d)
    /\ Len(d.args) % 2 = 1
    /\ \A i \in 0..(DictLen(d) - 1) : IsAtom(DictKeyAt(d, i))

\* The key positions of an argument list.
KeyPositions(args) == {i \in 2..Len(args) : i % 2 = 0}

InvalidArgs(args) == Len(args) = 0 \/ Len(args) % 2 = 0

NonAtomKey(args) == \E i \in KeyPositions(args) : ~IsAtom(args[i])

TwiceKey(args, k) ==
    \E i, j \in KeyPositions(args) : i < j /\ args[i] = k /\ args[j] = k

TwiceKeys(args) == {k \in KeyAtoms : TwiceKey(args, k)}

\* C27: NewDict returns an error exactly when the argument list is empty or
\* of even length (invalid dict), a key is not an atom (key expected) or a
\* key occurs twice (duplicate key: K); otherwise a dict with the given tag,
\* strictly ascending keys and exactly the given pairs.
C27_NewDict ==
    dcLast.op = "NewDict" =>
        /\ (dcLast.got.err # NoErr) <=>
              (InvalidArgs(dcLast.args) \/ NonAtomKey(dcLast.args)
               \/ TwiceKeys(dcLast.args) # {})
        /\ InvalidArgs(dcLast.args) => dcLast.got.err = errInvalidDict
        /\ ~InvalidArgs(dcLast.args) /\ dcLast.got.err # NoErr =>
              \/ NonAtomKey(dcLast.args) /\ dcLast.got.err = errKeyExpected
              \/ \E k \in TwiceKeys(dcLast.args) : dcLast.got.err = duplicateKeyError(k)
        /\ dcLast.got.err = NoErr =>
              /\ WellFormed(dcLast.got.dict)
              /\ DictTag(dcLast.got.dict) = dcLast.args[1]
              /\ StrictlyAscending(dcLast.got.dict)
              /\ DictLen(dcLast.got.dict) = (Len(dcLast.args) - 1) \div 2
              /\ PairsOf(dcLast.got.dict) =
                    {<<dcLast.args[i], dcLast.args[i + 1]>> : i \in KeyPositions(dcLast.args)}

\* Three pairs given in descending order of their keys.
C27_Witness ==
    /\ dcLast.op = "NewDict"
    /\ dcLast.got.err = NoErr
    /\ Len(dcLast.args) = 7
    /\ AtomLess(dcLast.args[4], dcLast.args[2])
    /\ AtomLess(dcLast.args[6], dcLast.args[4])
    /\ StrictlyAscending(dcLast.got.dict)

\* A scan of the pairs from the first to the last.
LinearValue(d, key) ==
    IF key \in KeysOf(d)
    THEN ValueFound(DictValueAt(d, CHOOSE i \in 0..(DictLen(d) - 1) :
                                      /\ DictKeyAt(d, i) = key
                                      /\ \A j \in 0..(i - 1) : DictKeyAt(d, j) # key))
    ELSE ValueMissing

\* C28: on every dict built by NewDict or by put, Value(k) gives (v, true)
\* exactly when a linear scan of the pairs finds k with v, and not found
\* otherwise.
C28_ValueAgreesWithScan ==
    dcDict # NoDictTerm =>
        \A k \in KeyAtoms : Value(dcDict, k) = LinearValue(dcDict, k)

\* A dict of four keys that put has made from one of three.
C28_Witness ==
    /\ dcLast.op = "put"
    /\ DictLen(dcLast.dictIn) = 3
    /\ DictLen(dcDict) = 4
    /\ \A k \in KeyAtoms : Value(dcDict, k).ok

\* The last operation read the dict with an atom as key.
ReadByAtom ==
    /\ dcLast.op \in {"Op3", "get"}
    /\ IsAtom(dcLast.function)

\* result was unified with v and the continuation called once, or they do
\* not unify and the call failed.
UnifiedWith(v) ==
    /\ dcLast.got.err = NoErr
    /\ IF IsVar(dcLast.result) \/ dcLast.result = v
       THEN /\ Len(dcLast.got.sols) = 1
            /\ Resolve(dcLast.got.sols[1].env, dcLast.result) = v
       ELSE dcLast.got.sols = <<>>

PutNew ==
    IF IsDict(dcLast.new) THEN dcLast.new
    ELSE newDictFromListOfPairs(dcLast.new, NewEnv).dict

\* put was called with a dict or with pairs that make one.
PutOfDict ==
    /\ dcLast.op = "put"
    /\ IsCompound(dcLast.new)
    /\ PutNew # NoDictTerm

\* C30: put gives a new dict with the tag of the original, the union of the
\* keys in strictly ascending order, for each key the value of the new pairs
\* if they have it and of the original otherwise; the original is as it was.
C30_PutMerges ==
    PutOfDict =>
        /\ dcLast.got.err = NoErr
        /\ Len(dcLast.got.sols) = 1
        /\ Resolve(dcLast.got.sols[1].env, VarOut) = dcDict
        /\ WellFormed(dcDict)
        /\ DictTag(dcDict) = DictTag(dcLast.dictIn)
        /\ KeysOf(dcDict) = KeysOf(dcLast.dictIn) \cup KeysOf(PutNew)
        /\ StrictlyAscending(dcDict)
        /\ \A k \in KeysOf(dcDict) :
              LinearValue(dcDict, k) =
                  IF k \in KeysOf(PutNew) THEN LinearValue(PutNew, k)
                  ELSE LinearValue(dcLast.dictIn, k)
        /\ WellFormed(dcLast.dictIn) /\ StrictlyAscending(dcLast.dictIn)

\* A put that replaces one value and adds one key.
C30_Witness ==
    /\ PutOfDict
    /\ KeysOf(PutNew) \cap KeysOf(dcLast.dictIn) # {}
    /\ KeysOf(PutNew) \ KeysOf(dcLast.dictIn) # {}
    /\ KeysOf(dcLast.dictIn) \ KeysOf(PutNew) # {}
    /\ \E k \in KeysOf(PutNew) \cap KeysOf(dcLast.dictIn) :
          LinearValue(PutNew, k) # LinearValue(dcLast.dictIn, k)

(***************************************************************************)
(* Claims about the clause compiler.                                       *)
(***************************************************************************)
\* The terms that a run of Get or Put instructions stands for, read back
\* from the instructions: k terms from ins, and the instructions left.
CutMark == [t |-> "cut"]

RECURSIVE ReadTerms(_, _, _)
ReadTerm(ins, slots) ==
    LET i == Head(ins)
    IN  CASE i.op \in {"GetConst", "PutConst"} ->
                [term |-> i.operand, rest |-> Tail(ins)]
          [] i.op \in {"GetVar", "PutVar"} ->
                [term |-> slots[i.operand + 1], rest |-> Tail(ins)]
          [] i.op \in {"GetFunctor", "PutFunctor"} ->
                LET r == ReadTerms(Tail(ins), slots, i.operand[2])
                IN  [term |-> Cmp(i.operand[1], r.terms), rest |-> Tail(r.rest)]
          [] i.op \in {"GetDict", "PutDict"} ->
                LET r == ReadTerms(Tail(ins), slots, i.operand)
                IN  [term |-> newDict(r.terms), rest |-> Tail(r.rest)]

ReadTerms(ins, slots, k) ==
    IF k = 0
    THEN [terms |-> <<>>, rest |-> ins]
    ELSE LET r == ReadTerm(ins, slots)
             s == ReadTerms(r.rest, slots, k - 1)
         IN  [terms |-> <<r.term>> \o s.terms, rest |-> s.rest]

\* The number of top-level terms that the instructions before the first
\* instruction of ops build.
RECURSIVE TermsBefore(_, _, _)
TermsBefore(ins, ops, depth) ==
    IF ins = <<>> \/ (depth = 0 /\ Head(ins).op \in ops)
    THEN 0
    ELSE CASE Head(ins).op \in {"GetFunctor", "PutFunctor", "GetDict", "PutDict"} ->
                 (IF depth = 0 THEN 1 ELSE 0) + TermsBefore(Tail(ins), ops, depth + 1)
           [] Head(ins).op = "Pop" -> TermsBefore(Tail(ins), ops, depth - 1)
           [] OTHER -> (IF depth = 0 THEN 1 ELSE 0) + TermsBefore(Tail(ins), ops, depth)

\* The goals that the instructions of a body call, in their order: ! for a
\* Cut, Name(Args) for a Call Name/Arity after the Put instructions of Args.
RECURSIVE ReadGoals(_, _)
ReadGoals(ins, slots) ==
    IF ins = <<>> \/ Head(ins).op = "Exit"
    THEN <<>>
    ELSE IF Head(ins).op = "Cut"
    THEN <<CutMark>> \o ReadGoals(Tail(ins), slots)
    ELSE LET r == ReadTerms(ins, slots, TermsBefore(ins, {"Call", "Cut", "Exit"}, 0))
         IN  IF r.rest # <<>> /\ Head(r.rest).op = "Call"
             THEN <<[pi |-> Head(r.rest).operand,
                     goal |-> Apply(Head(r.rest).operand[1], r.terms)]>>
                      \o ReadGoals(Tail(r.rest), slots)
             ELSE <<[pi |-> <<"", -1>>, goal |-> CutMark]>>

Positions(ins, op) == {i \in 1..Len(ins) : ins[i].op = op}

\* The instructions of the head of c: those before Enter, or before Exit
\* for a clause without body.
HeadPart(c) ==
    SubSeq(c.bytecode, 1,
           (IF Positions(c.bytecode, "Enter") # {}
            THEN CHOOSE i \in Positions(c.bytecode, "Enter") : TRUE
            ELSE Len(c.bytecode)) - 1)

BodyPart(c) ==
    SubSeq(c.bytecode, Len(HeadPart(c)) + 2, Len(c.bytecode))

\* The goal that the compiler is to call for the goal g of a body.
GoalAsCalled(goal) ==
    CASE IsVar(goal) -> [pi |-> <<atomCall, 1>>, goal |-> Cmp(atomCall, <<goal>>)]
      [] goal = atomCut -> CutMark
      [] goal.t = "atom" -> [pi |-> <<goal.a, 0>>, goal |-> goal]
      [] OTHER -> [pi |-> <<goal.f, Len(goal.args)>>, goal |-> goal]

RECURSIVE HasDot(_)
HasDot(t) ==
    /\ IsCompound(t)
    /\ \/ t.f = atomSpecialDot /\ Len(t.args) = 2
       \/ \E i \in 1..Len(t.args) : HasDot(t.args[i])

\* The number of terms t.d in t.
RECURSIVE Dots(_)
RECURSIVE DotsIn(_, _)
DotsIn(args, i) == IF i > Len(args) THEN 0 ELSE Dots(args[i]) + DotsIn(args, i + 1)

Dots(t) ==
    IF ~IsCompound(t)
    THEN 0
    ELSE (IF t.f = atomSpecialDot /\ Len(t.args) = 2 THEN 1 ELSE 0) + DotsIn(t.args, 1)

\* The head of the clause term t, and the bodies of the clauses compiled
\* from it: one per alternative, none for a fact.
HeadTerm(t) == IF IsOp(t, atomIf) THEN t.args[1] ELSE t

BodyTerms(t) == IF IsOp(t, atomIf) THEN altIterator(NewEnv, t.args[2]) ELSE <<>>

\* The slots used by the instructions, in the order of their first use.
RECURSIVE SlotsUsed(_, _)
SlotsUsed(ins, seen) ==
    IF ins = <<>>
    THEN seen
    ELSE SlotsUsed(Tail(ins),
                   IF Head(ins).op \in {"GetVar", "PutVar"} /\ ~InSeq(Head(ins).operand, seen)
                   THEN Append(seen, Head(ins).operand)
                   ELSE seen)

Compiles == cpLast.made /\ cpLast.got.err = NoErr

\* The clause i compiled last is as C31 says.
CompiledAsSaid(c, head, body) ==
    LET goals == seqIterator(NewEnv, body[1])
        called == ReadGoals(BodyPart(c), c.vars)
        own == SelectSeq(called, LAMBDA made : made = CutMark \/ made.pi # <<atomDot, 3>>)
    IN  \* exactly one Exit, at the end
        /\ Positions(c.bytecode, "Exit") = {Len(c.bytecode)}
        \* the head instructions come first and hold no Put, Call or Cut
        /\ \A i \in 1..Len(HeadPart(c)) :
              HeadPart(c)[i].op \in {"GetConst", "GetVar", "GetFunctor", "GetDict", "Pop"}
        /\ body # <<>> =>
              /\ Cardinality(Positions(c.bytecode, "Enter")) = 1
              /\ \A i \in 1..Len(BodyPart(c)) :
                    BodyPart(c)[i].op \in {"PutConst", "PutVar", "PutFunctor", "PutDict",
                                           "Pop", "Call", "Cut", "Exit"}
              \* one Call or Cut per goal, in the order of the source
              /\ Len(own) = Len(goals)
              /\ \A i \in 1..Len(goals) :
                    /\ GoalAsCalled(goals[i]) = CutMark <=> own[i] = CutMark
                    /\ own[i] # CutMark =>
                          /\ own[i].pi = GoalAsCalled(goals[i]).pi
                          /\ own[i].pi[2] = 0 \/ Len(own[i].goal.args) = own[i].pi[2]
                          /\ ~HasDot(goals[i]) => own[i] = GoalAsCalled(goals[i])
        /\ ~HasDot(head) /\ HeadPart(c) # <<>> =>
              ReadTerms(HeadPart(c), c.vars, Len(head.args)).terms = head.args
        \* one slot per variable, numbered by first occurrence
        /\ \A i, j \in 1..Len(c.vars) : c.vars[i] = c.vars[j] => i = j
        /\ SlotsUsed(c.bytecode, <<>>) = [i \in 1..Len(c.vars) |-> i - 1]
        /\ ~HasDot(head) /\ (body = <<>> \/ ~HasDot(body[1])) =>
              c.vars = FreeVariables(NewEnv, <<head>> \o body)

RECURSIVE AuxCalls(_)
AuxCalls(n) == IF n = 0 THEN <<>> ELSE <<<<atomDot, 3>>>> \o AuxCalls(n - 1)

RECURSIVE CallsInOrder(_)
CallsInOrder(goals) ==
    IF goals = <<>>
    THEN <<>>
    ELSE AuxCalls(Dots(Head(goals)))
            \o <<IF GoalAsCalled(Head(goals)) = CutMark
                 THEN <<"!", 0>>
                 ELSE GoalAsCalled(Head(goals)).pi>>
            \o CallsInOrder(Tail(goals))

CallsMade(c) ==
    [i \in 1..Len(ReadGoals(BodyPart(c), c.vars)) |->
        IF ReadGoals(BodyPart(c), c.vars)[i] = CutMark
        THEN <<"!", 0>>
        ELSE ReadGoals(BodyPart(c), c.vars)[i].pi]

\* The clause compiled last has a dot term and a goal of its own.
DotClause ==
    /\ Compiles
    /\ IsOp(cpLast.t, atomIf)
    /\ HasDot(cpLast.t)

\* C32: every dot term t.d becomes a fresh variable TempV and a goal
\* '.'(t, d, TempV) of the body; the goals of the clause keep their order,
\* the auxiliary goal of a dot term of the head is called after them and the
\* auxiliary goal of a dot term of a body goal directly before that goal.
C32_AuxiliaryGoalsInPlace ==
    DotClause =>
        \A i \in 1..Len(cpLast.got.cs) :
            CallsMade(cpLast.got.cs[i]) =
                CallsInOrder(seqIterator(NewEnv, BodyTerms(cpLast.t)[i]))
                    \o AuxCalls(Dots(HeadTerm(cpLast.t)))

\* h(X) :- p(Z), p(Y.b).  calls '.'(Y, b, TempV) before p(Z).
C32_Witness ==
    /\ DotClause
    /\ cpLast.t = Rule(Cmp("h", <<X>>), Conj(Cmp("p", <<Z>>), Cmp("p", <<Dot(Y, b)>>)))
    /\ CallsMade(cpLast.got.cs[1]) = <<<<atomDot, 3>>, <<"p", 1>>, <<"p", 1>>>>
    /\ cpLast.got.cs[1].vars = <<X, Y, Variable(ParsedVariables + 1), Z>>

(***************************************************************************)
(* Claims about byte input.                                                *)
(***************************************************************************)
\* The last call was op on a binary input stream that op can read, with an
\* inByte that is neither a variable nor an integer in -1..255.
NotInByte(op) ==
    /\ bsLast.op = op
    /\ bsLast.streamOrAlias = StreamTerm
    /\ bsLast.before.source = "bufio"
    /\ bsLast.before.streamType = "binary"
    /\ ~IsVar(bsLast.inByte)
    /\ ~(bsLast.inByte.t = "int" /\ bsLast.inByte.i \in (-1)..255)

RefusedInByte ==
    /\ bsLast.got.err = typeErrorInByte(bsLast.inByte)
    /\ bsLast.got.s.pos = bsLast.before.pos
    /\ bsStream = bsLast.before

\* C33: get_byte with an inByte that is instantiated and neither an integer
\* in 0..255 nor -1 raises type_error(in_byte, Culprit) and consumes no
\* byte, as peek_byte does.
C33_GetByteRefusesNonByte ==
    /\ NotInByte("get_byte") => RefusedInByte
    /\ NotInByte("peek_byte") => RefusedInByte

\* get_byte(S, 256) on a stream holding the byte 65 reads the byte and
\* fails without an error.
C33_Witness ==
    /\ NotInByte("get_byte")
    /\ bsLast.inByte = Integer(256)
    /\ bsLast.before.data = <<65>> /\ bsLast.before.pos = 0
    /\ bsStream.pos = 1
    /\ bsLast.got.err = NoErr
    /\ bsLast.got.sols = <<>>

(***************************************************************************)
(* Claims about the tree of an environment.                                *)
(***************************************************************************)
\* The keys of the tree at p from left to right.
RECURSIVE InOrder(_, _)
InOrder(h, p) ==
    IF p = Nil
    THEN <<>>
    ELSE InOrder(h, h[p].left) \o <<h[p].key>> \o InOrder(h, h[p].right)

\* The numbers of black nodes on the paths from p to a nil leaf.
RECURSIVE BlackHeights(_, _)
BlackHeights(h, p) ==
    IF p = Nil
    THEN {0}
    ELSE {n + (IF h[p].color = "black" THEN 1 ELSE 0) :
             n \in BlackHeights(h, h[p].left) \cup BlackHeights(h, h[p].right)}

\* The nodes of the tree at p.
RECURSIVE NodesOf(_, _)
NodesOf(h, p) ==
    IF p = Nil THEN {} ELSE {p} \cup NodesOf(h, h[p].left) \cup NodesOf(h, h[p].right)

RedBlack(h, r) ==
    /\ \A i \in 1..(Len(InOrder(h, r)) - 1) : InOrder(h, r)[i] < InOrder(h, r)[i + 1]
    /\ h[r].color = "black"
    /\ \A p \in NodesOf(h, r) :
          Red(h, p) => ~Red(h, h[p].left) /\ ~Red(h, h[p].right)
    /\ Cardinality(BlackHeights(h, r)) = 1

\* C34: every environment that bind returns is a red-black search tree over
\* the keys of its variables: the keys are strictly increasing from left to
\* right, the root is black, no red node has a red child and every path
\* from the root to a nil leaf has the same number of black nodes.
C34_BindKeepsRedBlackTree ==
    \A i \in 1..Len(envRoots) : RedBlack(envHeap, envRoots[i])

\* After the binds of the variables 2, 5, 3, 6 and 4 the red node of the
\* key of 3 has the red child of the key of 4; the tree is a search tree
\* still and the variable bound last is found.
C34_Witness ==
    /\ Len(envRoots) = MaxChain
    /\ \E p \in NodesOf(envHeap, envRoots[MaxChain]) :
          /\ Red(envHeap, p)
          /\ Red(envHeap, envHeap[p].left)
          /\ envHeap[p].key = newEnvKey(3)
          /\ envHeap[envHeap[p].left].key = newEnvKey(4)
    /\ envLast.v = 4
    /\ Len(InOrder(envHeap, envRoots[MaxChain])) = MaxChain + 1
    /\ lookup([h |-> envHeap, r |-> envRoots[MaxChain]], envLast.v) = Found(envLast.t)

(***************************************************************************)
(* Claims about Resolve.                                                   *)
(***************************************************************************)
\* The variables seen are a chain of bindings from the argument to t.
ChainTo(e, arg, stop, t) ==
    IF stop = <<>>
    THEN t = arg
    ELSE /\ stop[1] = arg
         /\ \A i \in 1..(Len(stop) - 1) : lookup(e, stop[i].v) = Found(stop[i + 1])
         /\ lookup(e, stop[Len(stop)].v) = Found(t)
         /\ \A i, j \in 1..Len(stop) : stop[i] = stop[j] => i = j

ResolvedAsSaid ==
    rsRun.pc = "done" =>
        /\ ChainTo(rsEnv, rsRun.arg, rsRun.stop, rsRun.t)
        /\ \/ ~IsVar(rsRun.t)
           \/ IsVar(rsRun.t) /\ ~lookup(rsEnv, rsRun.t.v).ok
           \/ IsVar(rsRun.t) /\ InSeq(rsRun.t, rsRun.stop)
        /\ rsRun.t = Resolve(rsEnv, rsRun.arg)

\* C35: Resolve terminates, also when the bindings form a cycle, and
\* returns the first term on the chain of bindings from its argument that
\* is not a variable, or the unbound variable at the end of the chain, or
\* the variable that it meets for the second time.
C35_ResolveTerminates ==
    /\ []ResolvedAsSaid
    /\ (rsRun.pc = "loop") ~> (rsRun.pc = "done")

\* With X bound to Y, Y to Z and Z to X, Resolve(X) has returned X after
\* seeing X, Y and Z.
C35_Witness ==
    /\ rsRun.pc = "done"
    /\ lookup(rsEnv, X.v) = Found(Y)
    /\ lookup(rsEnv, Y.v) = Found(Z)
    /\ lookup(rsEnv, Z.v) = Found(X)
    /\ rsRun.arg = X
    /\ rsRun.stop = <<X, Y, Z>>
    /\ rsRun.t = X

(***************************************************************************)
(* Claims on the alternatives of a call and on the head of a clause.       *)
(***************************************************************************)
RunLog == rnLast.got.st.log

RunEvents(kind) == {i \in DOMAIN RunLog : RunLog[i].ev = kind}

\* The variables issued up to the end of the run.
RunVariables == 2..rnLast.got.st.n

\* The call whose alternative the try event e is.
CallOfTry(e) == RunLog[CHOOSE i \in RunEvents("call") : RunLog[i].call = e.call]

RegistersOf(e) == {e.vars[k].v : k \in DOMAIN e.vars}

\* The variables held by the environment env: the bound ones and those in
\* the terms they are bound to.
HeldBy(env) ==
    UNION {IF lookup(env, v).ok THEN {v} \cup VarsIn(lookup(env, v).t) ELSE {}
           : v \in RunVariables}

\* The try event e starts from the bindings of its call, with registers
\* met nowhere before.
StartsAfresh(e) ==
    /\ \A v \in RunVariables : lookup(e.env, v) = lookup(CallOfTry(e).env, v)
    /\ RegistersOf(e) \cap HeldBy(e.env) = {}
    /\ RegistersOf(e) \cap UNION {VarsIn(e.args[k]) : k \in DOMAIN e.args} = {}
    /\ RegistersOf(e) \cap (2..ParsedVariables) = {}
    /\ Cardinality(RegistersOf(e)) = Len(e.slots)

\* C36: each alternative of a call starts from the environment the call
\* was made with (no binding of an alternative tried before is in it) and
\* from register variables of its own, and no two invocations of clauses
\* share a register variable.
C36_AlternativesStartAfresh ==
    rnLast.made =>
        /\ \A i \in RunEvents("try") : StartsAfresh(RunLog[i])
        /\ \A i, j \in RunEvents("try") :
              i # j => RegistersOf(RunLog[i]) \cap RegistersOf(RunLog[j]) = {}

\* C36 witness: h(X, g(a, b)) is called on h(a, Y) :- q(Y) and h(X, X); the
\* first alternative binds X to a and fails in q, the second starts with X
\* unbound and gives X = g(a, b); q/1 has had its two clauses tried.
C36_Witness ==
    /\ rnLast.made
    /\ rnLast.program = <<Rule(Cmp("h", <<a, Y>>), Cmp("q", <<Y>>)), Cmp("h", <<X, X>>)>>
    /\ rnLast.goal = Cmp("h", <<X, g(a, b)>>)
    /\ rnLast.env = NewEnv
    /\ \E i \in RunEvents("enter"), j \in RunEvents("try") :
          /\ i < j
          /\ Resolve(RunLog[i].env, X) = a
          /\ RunLog[j].call = 1 /\ RunLog[j].clause = 2
          /\ Resolve(RunLog[j].env, X) = X
    /\ Cardinality({i \in RunEvents("try") : RunLog[i].call = 2}) = 2
    /\ Len(rnLast.got.sols) = 1
    /\ Full(rnLast.got.sols[1], X) = g(a, b)

\* The head of the clause of the try event e, with the registers of e for
\* its variables.
RenamedHead(e) ==
    Subst([v \in VarsIn(HeadTerm(e.raw)) |->
              e.vars[CHOOSE k \in DOMAIN e.slots : e.slots[k] = Variable(v)]],
          HeadTerm(e.raw))

GoalOfTry(e) == Cmp(CallOfTry(e).name, e.args)

\* What the invocation of the try event at i did after it: its events.
EventsOfTry(i) == {j \in DOMAIN RunLog : /\ RunLog[j].ev \in {"enter", "exit", "arrive"}
                                         /\ RunLog[j].inv = i}

\* The events at which the head of the invocation at i has been executed:
\* Enter for a rule, Exit for a fact.
HeadDone(i) == {j \in EventsOfTry(i) : RunLog[j].ev \in {"enter", "exit"}}

FirstOf(S) == CHOOSE j \in S : \A k \in S : j <= k

HeadUnifies(e) == unify(e.env, GoalOfTry(e), RenamedHead(e), FALSE, MaxDepth).ok

HeadAsUnification(i) ==
    /\ (HeadDone(i) # {}) <=> HeadUnifies(RunLog[i])
    /\ HeadDone(i) # {} =>
          Full(RunLog[FirstOf(HeadDone(i))].env, GoalOfTry(RunLog[i]))
             = Full(RunLog[FirstOf(HeadDone(i))].env, RenamedHead(RunLog[i]))
    /\ HeadDone(i) = {} => EventsOfTry(i) = {}

\* C40: the head instructions of a clause succeed exactly when the renamed
\* head unifies with the goal, and then give an environment in which head
\* and goal are the same term; when they fail, no goal of the body has been
\* called.
C40_HeadIsUnification ==
    rnLast.made => \A i \in RunEvents("try") : HeadAsUnification(i)

\* C40 witness: h(f(X), g(X, Y)) :- q(X), q(Y) is tried on h(f(a), g(X, b))
\* with success, and on it the fact h(f(a), 1) is tried and fails.
C40_Witness ==
    /\ rnLast.made
    /\ rnLast.program = <<Rule(Cmp("h", <<f(X), g(X, Y)>>),
                              Conj(Cmp("q", <<X>>), Cmp("q", <<Y>>))),
                         Cmp("h", <<f(a), Integer(1)>>)>>
    /\ rnLast.goal = Cmp("h", <<f(X), g(Y, Y)>>)
    /\ rnLast.env = NewEnv
    /\ \E i, j \in RunEvents("try") :
          /\ RunLog[i].call = 1 /\ RunLog[i].clause = 1 /\ HeadDone(i) # {}
          /\ Full(RunLog[FirstOf(HeadDone(i))].env, X) = Full(RunLog[FirstOf(HeadDone(i))].env, Y)
          /\ RunLog[j].call = 1 /\ RunLog[j].clause = 2 /\ HeadDone(j) = {}
          /\ ~HeadUnifies(RunLog[j])

(***************************************************************************)
(* Claims on a call whose procedure is changed while it runs.              *)
(***************************************************************************)
LiveClausesNow == sliceClauses(lvDb.arrays, lvDb.proc)

\* C39: a call tries, in their order, the clauses that the procedure held
\* when the call was made, whatever has been asserted to or retracted from
\* the procedure since: the clauses tried so far are the first ones of that
\* list, and all of it once the call has failed.
C39_AlternativesFixedAtCall ==
    lvCall.made =>
        /\ lvCall.tried = SubSeq(lvCall.ks, 1, lvCall.next - 1)
        /\ ~lvCall.active => lvCall.tried = lvCall.ks

\* C39 witness: the call was made on f(a), f(b); f(a) was retracted in
\* place and a clause asserted before the call went on, and the call has
\* still tried f(a) and then f(b) and nothing else.
C39_Witness ==
    /\ lvCall.made /\ ~lvCall.active /\ lvCall.changed
    /\ lvCall.tried = <<[id |-> 1, raw |-> f(a)], [id |-> 2, raw |-> f(b)]>>
    /\ lvDb.arrays[1][1] = [id |-> 2, raw |-> f(b)]
    /\ Len(LiveClausesNow) = 2
    /\ LiveClausesNow[1].id = 2 /\ LiveClausesNow[2].id = 3

(***************************************************************************)
(* Claims on what a catch that recovers does to the stack of the driver    *)
(* and on the errors that a catch takes.                                   *)
(***************************************************************************)
\* A recovering function has taken the last error.
HasRecovered == fRec.made /\ ~fRec.panic /\ fRec.left = NoErr

\* The place in the stack of the catch that took it.
RecoveredAt == Handler(fRec.h, fRec.before, fRec.err)

StackSet(s) == {s[i] : i \in 1..Len(s)}

\* The promises that have been pushed and are not the two shared promises
\* of Bool.
Pushable(h) == {p \in 1..Len(h) : p > Len(PromiseHeap0)}

\* The stack after a recovery is the stack on which the catch was pushed
\* and the promise of the recovery; nothing of the catch and above it is
\* left.
RecoveryKeepsOlder ==
    HasRecovered =>
        /\ RecoveredAt > 0
        /\ fRec.after # <<>>
        /\ SubSeq(fRec.after, 1, Len(fRec.after) - 1)
              = fBase[fRec.before[RecoveredAt]].base
        /\ \A j \in RecoveredAt..Len(fRec.before) :
              fRec.before[j] \notin StackSet(fRec.after)

\* C37: when a catch recovers, the promises pushed since the catch was
\* entered are taken from the stack with the catch itself, the promises
\* that were on the stack when the catch was entered are all left there
\* below the promise of the recovery, and a promise that has left the
\* stack is never put back on it.
C37_RecoverDiscardsInnerChoicePoints ==
    /\ []RecoveryKeepsOlder
    /\ [][\A p \in Pushable(fHeap) :
             p \notin StackSet(fStack) => p \notin StackSet(fStack')]_vars

\* C37 witness: in  q, catch((q, p), V, nope), t  with p :- throw(ball) the
\* catch has recovered over the alternatives of the inner q and of p, the
\* recovery has failed, the second clause of the outer q has been run and
\* the catch has recovered once more.
C37_Witness ==
    /\ fInput.query = Conj(NewAtom("q"),
                           Conj(catchGoal(Conj(NewAtom("q"), NewAtom("p")), Variable(3),
                                          NewAtom("nope")),
                                NewAtom("t")))
    /\ fInput.body = throwGoal(NewAtom("ball"))
    /\ HasRecovered
    /\ Len(fRec.before) - RecoveredAt >= 2
    /\ Len(fRec.after) = 3
    /\ Cardinality({i \in 1..Len(fLog) : fLog[i] = <<2>>}) >= 1
    /\ fPc = "poll"
    /\ fStack = fRec.after

\* The recovering function that took the last error is that of the inner
\* catch of the query.
InnerRecovered ==
    /\ HasRecovered
    /\ RecoveredAt > 0
    /\ fRec.h[fRec.before[RecoveredAt]].recover.rf = "Catch"
    /\ fRec.h[fRec.before[RecoveredAt]].recover.recover \in Recoveries

\* C38: the handler of a catch takes only errors raised while its protected
\* goal runs: the inner catch of the query, whose protected goal can raise
\* ball only, never takes the error after of the goal that follows it nor
\* the error again of its own recovery.
C38_CatchGuardsOnlyItsGoal ==
    InnerRecovered => fRec.err = Exception(NewAtom("ball"))

\* The error of the recovery goal is not taken by the catch it recovers for.
RecoveryErrorPassesOn ==
    InnerRecovered => fRec.err # Exception(NewAtom("again"))

\* C38 witness: in  q, catch(p, V, q), throw(after)  with p :- q the goal p
\* has succeeded, throw(after) has raised its error, and the handler of the
\* catch has taken it.
C38_Witness ==
    /\ fInput.query = Conj(NewAtom("q"),
                           Conj(catchGoal(NewAtom("p"), Variable(3), NewAtom("q")),
                                throwGoal(NewAtom("after"))))
    /\ fInput.body = NewAtom("q")
    /\ InnerRecovered
    /\ fRec.err = Exception(NewAtom("after"))

====
